---- MODULE Spec2Model ----
(***************************************************************************)
(* Partial-assembly convection integrator of MFEM                          *)
(* (fem/integ/bilininteg_convection_pa.cpp): the Setup kernels, the        *)
(* generic and the shared-memory Apply / ApplyTranspose kernels and the    *)
(* dispatch functions, over exact integer arithmetic.                      *)
(*                                                                         *)
(* Vectors and arrays are flat, 0-based functions 0..n-1 -> Int, indexed   *)
(* the way Reshape() indexes them (first index fastest).                   *)
(***************************************************************************)
EXTENDS Integers, Sequences, FiniteSets, TLC

\* the value a read of memory that nothing has written returns in this run
VARIABLE uninit

\* ------------------------------------------------------------------------
\* Bounds of the model
\* ------------------------------------------------------------------------

\* largest number of elements NE of a mesh
MaxNE == 2
\* input data sets are numbered 0..MaxSeed
MaxSeed == 1
\* largest number of AddMultPA / AddMultTransposePA calls of one run
MaxCalls == 2
\* largest size s of a DenseSymmetricMatrix whose entries are all visited
MaxSize == 4

\* ------------------------------------------------------------------------
\* Flat arrays
\* ------------------------------------------------------------------------

Range(n) == 0 .. (n - 1)

Zeros(n) == [i \in Range(n) |-> 0]

\* the function f with every value computed once (TLC evaluates a function
\* constructor lazily, on each application, unless it is made explicit)
Eager(f) == f @@ <<>>

\* Reshape(op.Write(), NQ,DIM,NE) of the Setup kernels: the cell y(q,c,e)
SetupView(NQ, DIM, q, c, e) == q + NQ * (c + DIM * e)

\* the 2D view of op with the component as the fastest index
OpView2DByComponent(Q1D, qx, qy, c, e) ==
  c + 2 * (qx + Q1D * (qy + Q1D * e))

\* Reshape(op_.Read(), Q1D, Q1D, 2, NE) of the 2D Apply and ApplyT kernels:
\* the cell op(qx,qy,c,e)
OpView2D(Q1D, qx, qy, c, e) == qx + Q1D * (qy + Q1D * (c + 2 * e))

\* Reshape(op_.Read(), Q1D, Q1D, Q1D, 3, NE) of the 3D Apply and ApplyT
\* kernels: the cell op(qx,qy,qz,c,e)
OpView3D(Q1D, qx, qy, qz, c, e) ==
  qx + Q1D * (qy + Q1D * (qz + Q1D * (c + 3 * e)))

\* Acc with the accumulator started at 1 instead of 0
RECURSIVE AccFromOne(_, _)
AccFromOne(t, n) == IF n = 0 THEN 1 ELSE AccFromOne(t, n - 1) + t[n - 1]

\* running sum t[0] + ... + t[n-1], accumulated from 0 in index order as the
\* "acc = 0.0; for (...) acc += ..." loops of the kernels do
RECURSIVE Acc(_, _)
Acc(t, n) == IF n = 0 THEN 0 ELSE Acc(t, n - 1) + t[n - 1]

\* AddCells with "=" in place of "+=": "for k < n: y[idx[k]] = val[k]"
RECURSIVE OverwriteCells(_, _, _, _)
OverwriteCells(y, idx, val, n) ==
  IF n = 0 THEN y
  ELSE LET y1 == OverwriteCells(y, idx, val, n - 1)
       IN  [y1 EXCEPT ![idx[n - 1]] = val[n - 1]]

\* "for k < n: y[idx[k]] += val[k]" (read-modify-write of each cell)
RECURSIVE AddCells(_, _, _, _)
AddCells(y, idx, val, n) ==
  IF n = 0 THEN y
  ELSE LET y1 == AddCells(y, idx, val, n - 1)
       IN  [y1 EXCEPT ![idx[n - 1]] = @ + val[n - 1]]

\* body(lo), ..., body(hi-1) applied to the output, one after the other
RECURSIVE Iterate(_, _, _, _)
Iterate(lo, hi, body(_, _), y) ==
  IF hi <= lo THEN y
  ELSE IF hi = lo + 1 THEN body(lo, y)
  ELSE LET mid == (lo + hi) \div 2
           y1  == Iterate(lo, mid, body, y)
       IN  \* the test makes TLC compute y1 before the second half starts
           IF y1 = y1 THEN Iterate(mid, hi, body, y1) ELSE y1

\* mfem::forall(N, body): body(0), ..., body(N-1) applied to the output
forall(N, body(_, _), y) == Iterate(0, N, body, y)

\* f(0) + ... + f(n-1)
RECURSIVE Sum(_, _)
Sum(f(_), n) == IF n = 0 THEN 0 ELSE Sum(f, n - 1) + f(n - 1)

Dot(u, v) == Sum(LAMBDA i : u[i] * v[i], Cardinality(DOMAIN u))

\* ------------------------------------------------------------------------
\* Generic kernels.  Every kernel takes the call's read-only arguments as a
\* record a = [ne, b, g, bt, gt, op_, x_, d1d, q1d] (the C++ parameters of
\* the same names) and the output vector y_, and returns the new y_.
\* A local array t[i][j][k] of the source is the function t[i, j, k].
\* ------------------------------------------------------------------------

\* the k-th cell of a loop nest "for i < n: for j < n" (i outer, j inner)
Outer(k, n) == k \div n
Inner(k, n) == k % n

\* the k-th cell of a loop nest "for dz: for dy: for dx" over n^3 cells
CellZ(k, n) == k \div (n * n)
CellY(k, n) == (k \div n) % n
CellX(k, n) == k % n

\* Apply2DQuadPoint with the two gradient components exchanged
Apply2DQuadPointSwapped(O1, O2, gradX, gradY) == (O1 * gradY) + (O2 * gradX)

\* value of PAConvectionApply2D at one quadrature point
Apply2DQuadPoint(O1, O2, gradX, gradY) == (O1 * gradX) + (O2 * gradY)

\* element task of PAConvectionApply2D: the forall body for element e
Apply2DElement(e, D1D, Q1D, a, y_) ==
  LET B(q, d)  == a.b[q + Q1D * d]
      G(q, d)  == a.g[q + Q1D * d]
      Bt(d, q) == a.bt[d + D1D * q]
      op(qx, qy, c) == a.op_[OpView2D(Q1D, qx, qy, c, e)]
      x(dx, dy) == a.x_[dx + D1D * (dy + D1D * e)]
      DR == Range(D1D)
      QR == Range(Q1D)
      u  == Eager([dy \in DR, dx \in DR |-> x(dx, dy)])
      Bu == Eager([dy \in DR, qx \in QR |->
               Acc([dx \in DR |-> B(qx, dx) * u[dy, dx]], D1D)])
      Gu == Eager([dy \in DR, qx \in QR |->
               Acc([dx \in DR |-> G(qx, dx) * u[dy, dx]], D1D)])
      GBu == Eager([qy \in QR, qx \in QR |->
               Acc([dy \in DR |-> G(qy, dy) * Bu[dy, qx]], D1D)])
      BGu == Eager([qy \in QR, qx \in QR |->
               Acc([dy \in DR |-> B(qy, dy) * Gu[dy, qx]], D1D)])
      DGu == Eager([qy \in QR, qx \in QR |->
               LET O1 == op(qx, qy, 0)
                   O2 == op(qx, qy, 1)
                   gradX == BGu[qy, qx]
                   gradY == GBu[qy, qx]
               IN  Apply2DQuadPoint(O1, O2, gradX, gradY)])
      BDGu == Eager([dy \in DR, qx \in QR |->
               Acc([qy \in QR |-> Bt(dy, qy) * DGu[qy, qx]], Q1D)])
      \* last loop nest: dx outer, dy inner, y(dx,dy,e) += BBDGu
      n   == D1D * D1D
      idx == [k \in Range(n) |->
               Outer(k, D1D) + D1D * (Inner(k, D1D) + D1D * e)]
      val == [k \in Range(n) |->
               Acc([qx \in QR |->
                      Bt(Outer(k, D1D), qx) * BDGu[Inner(k, D1D), qx]], Q1D)]
  IN  AddCells(y_, idx, val, n)

\* element task of PAConvectionApplyT2D
ApplyT2DElement(e, D1D, Q1D, a, y_) ==
  LET B(q, d)  == a.b[q + Q1D * d]
      Bt(d, q) == a.bt[d + D1D * q]
      Gt(d, q) == a.gt[d + D1D * q]
      op(qx, qy, c) == a.op_[OpView2D(Q1D, qx, qy, c, e)]
      x(dx, dy) == a.x_[dx + D1D * (dy + D1D * e)]
      DR == Range(D1D)
      QR == Range(Q1D)
      u  == Eager([dy \in DR, dx \in DR |-> x(dx, dy)])
      Bu == Eager([dy \in DR, qx \in QR |->
               Acc([dx \in DR |-> B(qx, dx) * u[dy, dx]], D1D)])
      BBu == Eager([qy \in QR, qx \in QR |->
               Acc([dy \in DR |-> B(qy, dy) * Bu[dy, qx]], D1D)])
      DBu == Eager([qy \in QR, qx \in QR, c \in Range(2) |->
               LET O1 == op(qx, qy, 0)
                   O2 == op(qx, qy, 1)
                   X  == BBu[qy, qx]
               IN  IF c = 0 THEN O1 * X ELSE O2 * X])
      GDBu == Eager([dy \in DR, qx \in QR, c \in Range(2) |->
               IF c = 0
               THEN Acc([qy \in QR |-> Bt(dy, qy) * DBu[qy, qx, 0]], Q1D)
               ELSE Acc([qy \in QR |-> Gt(dy, qy) * DBu[qy, qx, 1]], Q1D)])
      n   == D1D * D1D
      idx == [k \in Range(n) |->
               Outer(k, D1D) + D1D * (Inner(k, D1D) + D1D * e)]
      val == [k \in Range(n) |->
               Acc([qx \in QR |->
                      Gt(Outer(k, D1D), qx) * GDBu[Inner(k, D1D), qx, 0]
                      + Bt(Outer(k, D1D), qx) * GDBu[Inner(k, D1D), qx, 1]],
                   Q1D)]
  IN  AddCells(y_, idx, val, n)

\* element task of PAConvectionApply3D
Apply3DElement(e, D1D, Q1D, a, y_) ==
  LET B(q, d)  == a.b[q + Q1D * d]
      G(q, d)  == a.g[q + Q1D * d]
      Bt(d, q) == a.bt[d + D1D * q]
      op(qx, qy, qz, c) ==
        a.op_[OpView3D(Q1D, qx, qy, qz, c, e)]
      x(dx, dy, dz) == a.x_[dx + D1D * (dy + D1D * (dz + D1D * e))]
      DR == Range(D1D)
      QR == Range(Q1D)
      u  == Eager([dz \in DR, dy \in DR, dx \in DR |-> x(dx, dy, dz)])
      Bu == Eager([dz \in DR, dy \in DR, qx \in QR |->
               Acc([dx \in DR |-> B(qx, dx) * u[dz, dy, dx]], D1D)])
      Gu == Eager([dz \in DR, dy \in DR, qx \in QR |->
               Acc([dx \in DR |-> G(qx, dx) * u[dz, dy, dx]], D1D)])
      BBu == Eager([dz \in DR, qy \in QR, qx \in QR |->
               Acc([dy \in DR |-> B(qy, dy) * Bu[dz, dy, qx]], D1D)])
      GBu == Eager([dz \in DR, qy \in QR, qx \in QR |->
               Acc([dy \in DR |-> G(qy, dy) * Bu[dz, dy, qx]], D1D)])
      BGu == Eager([dz \in DR, qy \in QR, qx \in QR |->
               Acc([dy \in DR |-> B(qy, dy) * Gu[dz, dy, qx]], D1D)])
      GBBu == Eager([qz \in QR, qy \in QR, qx \in QR |->
               Acc([dz \in DR |-> G(qz, dz) * BBu[dz, qy, qx]], D1D)])
      BGBu == Eager([qz \in QR, qy \in QR, qx \in QR |->
               Acc([dz \in DR |-> B(qz, dz) * GBu[dz, qy, qx]], D1D)])
      BBGu == Eager([qz \in QR, qy \in QR, qx \in QR |->
               Acc([dz \in DR |-> B(qz, dz) * BGu[dz, qy, qx]], D1D)])
      DGu == Eager([qz \in QR, qy \in QR, qx \in QR |->
               LET O1 == op(qx, qy, qz, 0)
                   O2 == op(qx, qy, qz, 1)
                   O3 == op(qx, qy, qz, 2)
                   gradX == BBGu[qz, qy, qx]
                   gradY == BGBu[qz, qy, qx]
                   gradZ == GBBu[qz, qy, qx]
               IN  (O1 * gradX) + (O2 * gradY) + (O3 * gradZ)])
      BDGu == Eager([dz \in DR, qy \in QR, qx \in QR |->
               Acc([qz \in QR |-> Bt(dz, qz) * DGu[qz, qy, qx]], Q1D)])
      BBDGu == Eager([dz \in DR, dy \in DR, qx \in QR |->
               Acc([qy \in QR |-> Bt(dy, qy) * BDGu[dz, qy, qx]], Q1D)])
      \* last loop nest: dz, dy, dx; y(dx,dy,dz,e) += BBBDGu
      n   == D1D * D1D * D1D
      idx == [k \in Range(n) |->
               CellX(k, D1D)
               + D1D * (CellY(k, D1D) + D1D * (CellZ(k, D1D) + D1D * e))]
      val == [k \in Range(n) |->
               Acc([qx \in QR |->
                      Bt(CellX(k, D1D), qx)
                      * BBDGu[CellZ(k, D1D), CellY(k, D1D), qx]], Q1D)]
  IN  AddCells(y_, idx, val, n)

\* element task of PAConvectionApplyT3D
ApplyT3DElement(e, D1D, Q1D, a, y_) ==
  LET B(q, d)  == a.b[q + Q1D * d]
      Bt(d, q) == a.bt[d + D1D * q]
      Gt(d, q) == a.gt[d + D1D * q]
      op(qx, qy, qz, c) ==
        a.op_[OpView3D(Q1D, qx, qy, qz, c, e)]
      x(dx, dy, dz) == a.x_[dx + D1D * (dy + D1D * (dz + D1D * e))]
      DR == Range(D1D)
      QR == Range(Q1D)
      u  == Eager([dz \in DR, dy \in DR, dx \in DR |-> x(dx, dy, dz)])
      Bu == Eager([dz \in DR, dy \in DR, qx \in QR |->
               Acc([dx \in DR |-> B(qx, dx) * u[dz, dy, dx]], D1D)])
      BBu == Eager([dz \in DR, qy \in QR, qx \in QR |->
               Acc([dy \in DR |-> B(qy, dy) * Bu[dz, dy, qx]], D1D)])
      BBBu == Eager([qz \in QR, qy \in QR, qx \in QR |->
               Acc([dz \in DR |-> B(qz, dz) * BBu[dz, qy, qx]], D1D)])
      DBu == Eager([qz \in QR, qy \in QR, qx \in QR, c \in Range(3) |->
               LET O1 == op(qx, qy, qz, 0)
                   O2 == op(qx, qy, qz, 1)
                   O3 == op(qx, qy, qz, 2)
                   X  == BBBu[qz, qy, qx]
               IN  CASE c = 0 -> O1 * X
                     [] c = 1 -> O2 * X
                     [] c = 2 -> O3 * X])
      GDBu == Eager([dz \in DR, qy \in QR, qx \in QR, c \in Range(3) |->
               CASE c = 0 ->
                      Acc([qz \in QR |-> Bt(dz, qz) * DBu[qz, qy, qx, 0]], Q1D)
                 [] c = 1 ->
                      Acc([qz \in QR |-> Bt(dz, qz) * DBu[qz, qy, qx, 1]], Q1D)
                 [] c = 2 ->
                      Acc([qz \in QR |-> Gt(dz, qz) * DBu[qz, qy, qx, 2]], Q1D)])
      GGDBu == Eager([dz \in DR, dy \in DR, qx \in QR, c \in Range(3) |->
               CASE c = 0 ->
                      Acc([qy \in QR |-> Bt(dy, qy) * GDBu[dz, qy, qx, 0]], Q1D)
                 [] c = 1 ->
                      Acc([qy \in QR |-> Gt(dy, qy) * GDBu[dz, qy, qx, 1]], Q1D)
                 [] c = 2 ->
                      Acc([qy \in QR |-> Bt(dy, qy) * GDBu[dz, qy, qx, 2]], Q1D)])
      n   == D1D * D1D * D1D
      idx == [k \in Range(n) |->
               CellX(k, D1D)
               + D1D * (CellY(k, D1D) + D1D * (CellZ(k, D1D) + D1D * e))]
      \* res += gx * [0]; res += bx * [1]; res += bx * [2], for each qx
      val == [k \in Range(n) |->
               Acc([qx \in QR |->
                      Gt(CellX(k, D1D), qx)
                        * GGDBu[CellZ(k, D1D), CellY(k, D1D), qx, 0]
                      + Bt(CellX(k, D1D), qx)
                        * GGDBu[CellZ(k, D1D), CellY(k, D1D), qx, 1]
                      + Bt(CellX(k, D1D), qx)
                        * GGDBu[CellZ(k, D1D), CellY(k, D1D), qx, 2]], Q1D)]
  IN  AddCells(y_, idx, val, n)

\* ------------------------------------------------------------------------
\* Shared-memory kernels.  The body of a kernel is a sequence of stages
\* separated by MFEM_SYNC_THREAD.  A stage operator gives what ONE thread
\* t = [x, y, z] of a block of dimensions bd = [x, y, z] does in stage s:
\* MFEM_FOREACH_THREAD(i,x,N) gives thread t the indices i < N with
\* i % bd.x = t.x.  On the host backend a block is the single thread
\* [0,0,0] of dimensions [1,1,1], which runs every loop in full.
\* The state st = [sm, y] holds the block's shared memory and the output.
\* ------------------------------------------------------------------------

\* MFEM_FOREACH_THREAD as a plain loop: every thread takes every index
ForEachThreadAll(t0, N, bd0) == Range(N)

ForEachThread(t0, N, bd0) == {i \in Range(N) : i % bd0 = t0}

\* buf with cell Idx(c) set to Val(c) for every c in cells
Store(buf, cells, Idx(_), Val(_)) ==
  Eager([i \in DOMAIN buf |->
           IF \E c \in cells : Idx(c) = i
           THEN Val(CHOOSE c \in cells : Idx(c) = i)
           ELSE buf[i]])

\* y with y[Idx(c)] += Val(c) for every c in cells
AddStore(y, cells, Idx(_), Val(_)) ==
  Eager([i \in DOMAIN y |->
           IF \E c \in cells : Idx(c) = i
           THEN y[i] + Val(CHOOSE c \in cells : Idx(c) = i)
           ELSE y[i]])

\* stages 0 .. n-1 of a kernel body run one after the other by thread t
RECURSIVE RunStages(_, _, _)
RunStages(n, stage(_, _), st) ==
  IF n = 0 THEN st ELSE stage(n - 1, RunStages(n - 1, stage, st))

\* an array of n cells that nothing has written yet
Uninit(n) == [i \in Range(n) |-> uninit]

\* --- SmemPAConvectionApply2D ---------------------------------------------

SmemApply2DStages == 6

\* MFEM_SHARED real_t u[NBZ][max_D1D][max_D1D], Bu[NBZ][max_D1D][max_Q1D], ...
SmemApply2DShared(D1D, Q1D, NBZ) ==
  [u    |-> Uninit(NBZ * D1D * D1D),
   Bu   |-> Uninit(NBZ * D1D * Q1D),
   Gu   |-> Uninit(NBZ * D1D * Q1D),
   GBu  |-> Uninit(NBZ * Q1D * Q1D),
   BGu  |-> Uninit(NBZ * Q1D * Q1D),
   DGu  |-> Uninit(NBZ * Q1D * Q1D),
   BDGu |-> Uninit(NBZ * D1D * Q1D)]

SmemApply2DStage(s, t, bd, e, D1D, Q1D, a, st) ==
  LET B(q, d)  == a.b[q + Q1D * d]
      G(q, d)  == a.g[q + Q1D * d]
      Bt(d, q) == a.bt[d + D1D * q]
      op(qx, qy, c) == a.op_[OpView2D(Q1D, qx, qy, c, e)]
      x(dx, dy) == a.x_[dx + D1D * (dy + D1D * e)]
      tidz == t.z
      sm == st.sm
      \* t[tidz][i][j] of an array t[NBZ][n1][n2]
      At(n1, n2, i, j) == (tidz * n1 + i) * n2 + j
      u(dy, dx)    == sm.u[At(D1D, D1D, dy, dx)]
      Bu(dy, qx)   == sm.Bu[At(D1D, Q1D, dy, qx)]
      Gu(dy, qx)   == sm.Gu[At(D1D, Q1D, dy, qx)]
      GBu(qy, qx)  == sm.GBu[At(Q1D, Q1D, qy, qx)]
      BGu(qy, qx)  == sm.BGu[At(Q1D, Q1D, qy, qx)]
      DGu(qy, qx)  == sm.DGu[At(Q1D, Q1D, qy, qx)]
      BDGu(dy, qx) == sm.BDGu[At(D1D, Q1D, dy, qx)]
      DX == ForEachThread(t.x, D1D, bd.x)
      DY == ForEachThread(t.y, D1D, bd.y)
      QX == ForEachThread(t.x, Q1D, bd.x)
      QY == ForEachThread(t.y, Q1D, bd.y)
  IN  CASE s = 0 ->
             \* cells <<dy, dx>>
             [st EXCEPT !.sm.u =
                Store(@, DY \X DX,
                      LAMBDA c : At(D1D, D1D, c[1], c[2]),
                      LAMBDA c : x(c[2], c[1]))]
        [] s = 1 ->
             \* cells <<dy, qx>>
             [st EXCEPT
                !.sm.Bu = Store(@, DY \X QX,
                      LAMBDA c : At(D1D, Q1D, c[1], c[2]),
                      LAMBDA c : Acc([dx \in Range(D1D) |->
                                        B(c[2], dx) * u(c[1], dx)], D1D)),
                !.sm.Gu = Store(@, DY \X QX,
                      LAMBDA c : At(D1D, Q1D, c[1], c[2]),
                      LAMBDA c : Acc([dx \in Range(D1D) |->
                                        G(c[2], dx) * u(c[1], dx)], D1D))]
        [] s = 2 ->
             \* cells <<qy, qx>>
             [st EXCEPT
                !.sm.GBu = Store(@, QY \X QX,
                      LAMBDA c : At(Q1D, Q1D, c[1], c[2]),
                      LAMBDA c : Acc([dy \in Range(D1D) |->
                                        G(c[1], dy) * Bu(dy, c[2])], D1D)),
                !.sm.BGu = Store(@, QY \X QX,
                      LAMBDA c : At(Q1D, Q1D, c[1], c[2]),
                      LAMBDA c : Acc([dy \in Range(D1D) |->
                                        B(c[1], dy) * Gu(dy, c[2])], D1D))]
        [] s = 3 ->
             \* cells <<qy, qx>>
             [st EXCEPT !.sm.DGu =
                Store(@, QY \X QX,
                      LAMBDA c : At(Q1D, Q1D, c[1], c[2]),
                      LAMBDA c :
                        LET O1 == op(c[2], c[1], 0)
                            O2 == op(c[2], c[1], 1)
                            gradX == BGu(c[1], c[2])
                            gradY == GBu(c[1], c[2])
                        IN  (O1 * gradX) + (O2 * gradY))]
        [] s = 4 ->
             \* cells <<dy, qx>>
             [st EXCEPT !.sm.BDGu =
                Store(@, DY \X QX,
                      LAMBDA c : At(D1D, Q1D, c[1], c[2]),
                      LAMBDA c : Acc([qy \in Range(Q1D) |->
                                        Bt(c[1], qy) * DGu(qy, c[2])], Q1D))]
        [] s = 5 ->
             \* cells <<dx, dy>>: y(dx,dy,e) += BBDGu
             [st EXCEPT !.y =
                AddStore(@, DX \X DY,
                      LAMBDA c : c[1] + D1D * (c[2] + D1D * e),
                      LAMBDA c : Acc([qx \in Range(Q1D) |->
                                        Bt(c[1], qx) * BDGu(c[2], qx)], Q1D))]

\* --- SmemPAConvectionApplyT2D --------------------------------------------

SmemApplyT2DStages == 6

SmemApplyT2DShared(D1D, Q1D, NBZ) ==
  [u    |-> Uninit(NBZ * D1D * D1D),
   Bu   |-> Uninit(NBZ * D1D * Q1D),
   BBu  |-> Uninit(NBZ * Q1D * Q1D),
   DBu  |-> Uninit(NBZ * Q1D * Q1D * 2),
   GDBu |-> Uninit(NBZ * D1D * Q1D * 2)]

SmemApplyT2DStage(s, t, bd, e, D1D, Q1D, a, st) ==
  LET B(q, d)  == a.b[q + Q1D * d]
      Bt(d, q) == a.bt[d + D1D * q]
      Gt(d, q) == a.gt[d + D1D * q]
      op(qx, qy, c) == a.op_[OpView2D(Q1D, qx, qy, c, e)]
      x(dx, dy) == a.x_[dx + D1D * (dy + D1D * e)]
      tidz == t.z
      sm == st.sm
      At(n1, n2, i, j) == (tidz * n1 + i) * n2 + j
      \* t[tidz][i][j][c] of an array t[NBZ][n1][n2][2]
      At2(n1, n2, i, j, c) == ((tidz * n1 + i) * n2 + j) * 2 + c
      u(dy, dx)       == sm.u[At(D1D, D1D, dy, dx)]
      Bu(dy, qx)      == sm.Bu[At(D1D, Q1D, dy, qx)]
      BBu(qy, qx)     == sm.BBu[At(Q1D, Q1D, qy, qx)]
      DBu(qy, qx, c)  == sm.DBu[At2(Q1D, Q1D, qy, qx, c)]
      GDBu(dy, qx, c) == sm.GDBu[At2(D1D, Q1D, dy, qx, c)]
      DX == ForEachThread(t.x, D1D, bd.x)
      DY == ForEachThread(t.y, D1D, bd.y)
      QX == ForEachThread(t.x, Q1D, bd.x)
      QY == ForEachThread(t.y, Q1D, bd.y)
  IN  CASE s = 0 ->
             [st EXCEPT !.sm.u =
                Store(@, DY \X DX,
                      LAMBDA c : At(D1D, D1D, c[1], c[2]),
                      LAMBDA c : x(c[2], c[1]))]
        [] s = 1 ->
             [st EXCEPT !.sm.Bu =
                Store(@, DY \X QX,
                      LAMBDA c : At(D1D, Q1D, c[1], c[2]),
                      LAMBDA c : Acc([dx \in Range(D1D) |->
                                        B(c[2], dx) * u(c[1], dx)], D1D))]
        [] s = 2 ->
             [st EXCEPT !.sm.BBu =
                Store(@, QY \X QX,
                      LAMBDA c : At(Q1D, Q1D, c[1], c[2]),
                      LAMBDA c : Acc([dy \in Range(D1D) |->
                                        B(c[1], dy) * Bu(dy, c[2])], D1D))]
        [] s = 3 ->
             \* cells <<qy, qx, c>>
             [st EXCEPT !.sm.DBu =
                Store(@, QY \X QX \X Range(2),
                      LAMBDA c : At2(Q1D, Q1D, c[1], c[2], c[3]),
                      LAMBDA c :
                        LET O1 == op(c[2], c[1], 0)
                            O2 == op(c[2], c[1], 1)
                            X  == BBu(c[1], c[2])
                        IN  IF c[3] = 0 THEN O1 * X ELSE O2 * X)]
        [] s = 4 ->
             \* cells <<dy, qx, c>>
             [st EXCEPT !.sm.GDBu =
                Store(@, DY \X QX \X Range(2),
                      LAMBDA c : At2(D1D, Q1D, c[1], c[2], c[3]),
                      LAMBDA c :
                        IF c[3] = 0
                        THEN Acc([qy \in Range(Q1D) |->
                                    Bt(c[1], qy) * DBu(qy, c[2], 0)], Q1D)
                        ELSE Acc([qy \in Range(Q1D) |->
                                    Gt(c[1], qy) * DBu(qy, c[2], 1)], Q1D))]
        [] s = 5 ->
             \* cells <<dx, dy>>: y(dx,dy,e) += res
             [st EXCEPT !.y =
                AddStore(@, DX \X DY,
                      LAMBDA c : c[1] + D1D * (c[2] + D1D * e),
                      LAMBDA c : Acc([qx \in Range(Q1D) |->
                                        Gt(c[1], qx) * GDBu(c[2], qx, 0)
                                        + Bt(c[1], qx) * GDBu(c[2], qx, 1)],
                                     Q1D))]

\* --- SmemPAConvectionApply3D ---------------------------------------------

SmemApply3DStages == 8

Max(m, n) == IF m > n THEN m ELSE n

\* MFEM_SHARED real_t sm0[max_DQ*max_DQ*max_DQ], ..., sm5[...]
SmemApply3DShared(D1D, Q1D) ==
  LET max_DQ == Max(Q1D, D1D)
      n == max_DQ * max_DQ * max_DQ
  IN  [sm0 |-> Uninit(n), sm1 |-> Uninit(n),
       sm2 |-> Uninit(n), sm3 |-> Uninit(n),
       sm4 |-> Uninit(n), sm5 |-> Uninit(n)]

\* t[i][j][k] through a view "real_t (*t)[n1][n2]" of a flat buffer
View(n1, n2, i, j, k) == (i * n1 + j) * n2 + k

\* t[i][j][k][c] through a view "real_t (*t)[n1][n2][3]"
View3(n1, n2, i, j, k, c) == ((i * n1 + j) * n2 + k) * 3 + c

SmemApply3DStage(s, t, bd, e, D1D, Q1D, a, st) ==
  LET B(q, d)  == a.b[q + Q1D * d]
      G(q, d)  == a.g[q + Q1D * d]
      Bt(d, q) == a.bt[d + D1D * q]
      op(qx, qy, qz, c) ==
        a.op_[OpView3D(Q1D, qx, qy, qz, c, e)]
      x(dx, dy, dz) == a.x_[dx + D1D * (dy + D1D * (dz + D1D * e))]
      sm == st.sm
      u(dz, dy, dx)     == sm.sm0[View(D1D, D1D, dz, dy, dx)]
      Bu(dz, dy, qx)    == sm.sm1[View(D1D, Q1D, dz, dy, qx)]
      Gu(dz, dy, qx)    == sm.sm2[View(D1D, Q1D, dz, dy, qx)]
      BBu(dz, qy, qx)   == sm.sm3[View(Q1D, Q1D, dz, qy, qx)]
      GBu(dz, qy, qx)   == sm.sm4[View(Q1D, Q1D, dz, qy, qx)]
      BGu(dz, qy, qx)   == sm.sm5[View(Q1D, Q1D, dz, qy, qx)]
      GBBu(qz, qy, qx)  == sm.sm0[View(Q1D, Q1D, qz, qy, qx)]
      BGBu(qz, qy, qx)  == sm.sm1[View(Q1D, Q1D, qz, qy, qx)]
      BBGu(qz, qy, qx)  == sm.sm2[View(Q1D, Q1D, qz, qy, qx)]
      DGu(qz, qy, qx)   == sm.sm3[View(Q1D, Q1D, qz, qy, qx)]
      BDGu(dz, qy, qx)  == sm.sm4[View(Q1D, Q1D, dz, qy, qx)]
      BBDGu(dz, dy, qx) == sm.sm5[View(D1D, Q1D, dz, dy, qx)]
      DX == ForEachThread(t.x, D1D, bd.x)
      DY == ForEachThread(t.y, D1D, bd.y)
      DZ == ForEachThread(t.z, D1D, bd.z)
      QX == ForEachThread(t.x, Q1D, bd.x)
      QY == ForEachThread(t.y, Q1D, bd.y)
      QZ == ForEachThread(t.z, Q1D, bd.z)
  IN  CASE s = 0 ->
             \* cells <<dz, dy, dx>>
             [st EXCEPT !.sm.sm0 =
                Store(@, DZ \X DY \X DX,
                      LAMBDA c : View(D1D, D1D, c[1], c[2], c[3]),
                      LAMBDA c : x(c[3], c[2], c[1]))]
        [] s = 1 ->
             \* cells <<dz, dy, qx>>
             [st EXCEPT
                !.sm.sm1 = Store(@, DZ \X DY \X QX,
                      LAMBDA c : View(D1D, Q1D, c[1], c[2], c[3]),
                      LAMBDA c : Acc([dx \in Range(D1D) |->
                                   B(c[3], dx) * u(c[1], c[2], dx)], D1D)),
                !.sm.sm2 = Store(@, DZ \X DY \X QX,
                      LAMBDA c : View(D1D, Q1D, c[1], c[2], c[3]),
                      LAMBDA c : Acc([dx \in Range(D1D) |->
                                   G(c[3], dx) * u(c[1], c[2], dx)], D1D))]
        [] s = 2 ->
             \* cells <<dz, qy, qx>>
             [st EXCEPT
                !.sm.sm3 = Store(@, DZ \X QY \X QX,
                      LAMBDA c : View(Q1D, Q1D, c[1], c[2], c[3]),
                      LAMBDA c : Acc([dy \in Range(D1D) |->
                                   B(c[2], dy) * Bu(c[1], dy, c[3])], D1D)),
                !.sm.sm4 = Store(@, DZ \X QY \X QX,
                      LAMBDA c : View(Q1D, Q1D, c[1], c[2], c[3]),
                      LAMBDA c : Acc([dy \in Range(D1D) |->
                                   G(c[2], dy) * Bu(c[1], dy, c[3])], D1D)),
                !.sm.sm5 = Store(@, DZ \X QY \X QX,
                      LAMBDA c : View(Q1D, Q1D, c[1], c[2], c[3]),
                      LAMBDA c : Acc([dy \in Range(D1D) |->
                                   B(c[2], dy) * Gu(c[1], dy, c[3])], D1D))]
        [] s = 3 ->
             \* cells <<qz, qy, qx>>
             [st EXCEPT
                !.sm.sm0 = Store(@, QZ \X QY \X QX,
                      LAMBDA c : View(Q1D, Q1D, c[1], c[2], c[3]),
                      LAMBDA c : Acc([dz \in Range(D1D) |->
                                   G(c[1], dz) * BBu(dz, c[2], c[3])], D1D)),
                !.sm.sm1 = Store(@, QZ \X QY \X QX,
                      LAMBDA c : View(Q1D, Q1D, c[1], c[2], c[3]),
                      LAMBDA c : Acc([dz \in Range(D1D) |->
                                   B(c[1], dz) * GBu(dz, c[2], c[3])], D1D)),
                !.sm.sm2 = Store(@, QZ \X QY \X QX,
                      LAMBDA c : View(Q1D, Q1D, c[1], c[2], c[3]),
                      LAMBDA c : Acc([dz \in Range(D1D) |->
                                   B(c[1], dz) * BGu(dz, c[2], c[3])], D1D))]
        [] s = 4 ->
             \* cells <<qz, qy, qx>>
             [st EXCEPT !.sm.sm3 =
                Store(@, QZ \X QY \X QX,
                      LAMBDA c : View(Q1D, Q1D, c[1], c[2], c[3]),
                      LAMBDA c :
                        LET O1 == op(c[3], c[2], c[1], 0)
                            O2 == op(c[3], c[2], c[1], 1)
                            O3 == op(c[3], c[2], c[1], 2)
                            gradX == BBGu(c[1], c[2], c[3])
                            gradY == BGBu(c[1], c[2], c[3])
                            gradZ == GBBu(c[1], c[2], c[3])
                        IN  (O1 * gradX) + (O2 * gradY) + (O3 * gradZ))]
        [] s = 5 ->
             \* cells <<dz, qy, qx>>
             [st EXCEPT !.sm.sm4 =
                Store(@, DZ \X QY \X QX,
                      LAMBDA c : View(Q1D, Q1D, c[1], c[2], c[3]),
                      LAMBDA c : Acc([qz \in Range(Q1D) |->
                                   Bt(c[1], qz) * DGu(qz, c[2], c[3])], Q1D))]
        [] s = 6 ->
             \* cells <<dz, dy, qx>>
             [st EXCEPT !.sm.sm5 =
                Store(@, DZ \X DY \X QX,
                      LAMBDA c : View(D1D, Q1D, c[1], c[2], c[3]),
                      LAMBDA c : Acc([qy \in Range(Q1D) |->
                                   Bt(c[2], qy) * BDGu(c[1], qy, c[3])], Q1D))]
        [] s = 7 ->
             \* cells <<dz, dy, dx>>: y(dx,dy,dz,e) += BBBDGu
             [st EXCEPT !.y =
                AddStore(@, DZ \X DY \X DX,
                      LAMBDA c : c[3] + D1D * (c[2] + D1D * (c[1] + D1D * e)),
                      LAMBDA c : Acc([qx \in Range(Q1D) |->
                                   Bt(c[3], qx) * BBDGu(c[1], c[2], qx)], Q1D))]

\* --- SmemPAConvectionApplyT3D --------------------------------------------

SmemApplyT3DStages == 8

\* MFEM_SHARED real_t sm0[3*max_DQ*max_DQ*max_DQ], sm1[...]
SmemApplyT3DShared(D1D, Q1D) ==
  LET max_DQ == Max(Q1D, D1D)
      n == 3 * max_DQ * max_DQ * max_DQ
  IN  [sm0 |-> Uninit(n), sm1 |-> Uninit(n)]

SmemApplyT3DStage(s, t, bd, e, D1D, Q1D, a, st) ==
  LET B(q, d)  == a.b[q + Q1D * d]
      Bt(d, q) == a.bt[d + D1D * q]
      Gt(d, q) == a.gt[d + D1D * q]
      op(qx, qy, qz, c) ==
        a.op_[OpView3D(Q1D, qx, qy, qz, c, e)]
      x(dx, dy, dz) == a.x_[dx + D1D * (dy + D1D * (dz + D1D * e))]
      sm == st.sm
      u(dz, dy, dx)        == sm.sm0[View(D1D, D1D, dz, dy, dx)]
      Bu(dz, dy, qx)       == sm.sm1[View(D1D, Q1D, dz, dy, qx)]
      BBu(dz, qy, qx)      == sm.sm0[View(Q1D, Q1D, dz, qy, qx)]
      BBBu(qz, qy, qx)     == sm.sm1[View(Q1D, Q1D, qz, qy, qx)]
      DBu(qz, qy, qx, c)   == sm.sm0[View3(Q1D, Q1D, qz, qy, qx, c)]
      GDBu(dz, qy, qx, c)  == sm.sm1[View3(Q1D, Q1D, dz, qy, qx, c)]
      GGDBu(dz, dy, qx, c) == sm.sm0[View3(D1D, Q1D, dz, dy, qx, c)]
      DX == ForEachThread(t.x, D1D, bd.x)
      DY == ForEachThread(t.y, D1D, bd.y)
      DZ == ForEachThread(t.z, D1D, bd.z)
      QX == ForEachThread(t.x, Q1D, bd.x)
      QY == ForEachThread(t.y, Q1D, bd.y)
      QZ == ForEachThread(t.z, Q1D, bd.z)
  IN  CASE s = 0 ->
             [st EXCEPT !.sm.sm0 =
                Store(@, DZ \X DY \X DX,
                      LAMBDA c : View(D1D, D1D, c[1], c[2], c[3]),
                      LAMBDA c : x(c[3], c[2], c[1]))]
        [] s = 1 ->
             [st EXCEPT !.sm.sm1 =
                Store(@, DZ \X DY \X QX,
                      LAMBDA c : View(D1D, Q1D, c[1], c[2], c[3]),
                      LAMBDA c : Acc([dx \in Range(D1D) |->
                                   B(c[3], dx) * u(c[1], c[2], dx)], D1D))]
        [] s = 2 ->
             [st EXCEPT !.sm.sm0 =
                Store(@, DZ \X QY \X QX,
                      LAMBDA c : View(Q1D, Q1D, c[1], c[2], c[3]),
                      LAMBDA c : Acc([dy \in Range(D1D) |->
                                   B(c[2], dy) * Bu(c[1], dy, c[3])], D1D))]
        [] s = 3 ->
             [st EXCEPT !.sm.sm1 =
                Store(@, QZ \X QY \X QX,
                      LAMBDA c : View(Q1D, Q1D, c[1], c[2], c[3]),
                      LAMBDA c : Acc([dz \in Range(D1D) |->
                                   B(c[1], dz) * BBu(dz, c[2], c[3])], D1D))]
        [] s = 4 ->
             \* cells <<qz, qy, qx, c>>
             [st EXCEPT !.sm.sm0 =
                Store(@, QZ \X QY \X QX \X Range(3),
                      LAMBDA c : View3(Q1D, Q1D, c[1], c[2], c[3], c[4]),
                      LAMBDA c :
                        LET O1 == op(c[3], c[2], c[1], 0)
                            O2 == op(c[3], c[2], c[1], 1)
                            O3 == op(c[3], c[2], c[1], 2)
                            X  == BBBu(c[1], c[2], c[3])
                        IN  CASE c[4] = 0 -> O1 * X
                              [] c[4] = 1 -> O2 * X
                              [] c[4] = 2 -> O3 * X)]
        [] s = 5 ->
             \* cells <<dz, qy, qx, c>>
             [st EXCEPT !.sm.sm1 =
                Store(@, DZ \X QY \X QX \X Range(3),
                      LAMBDA c : View3(Q1D, Q1D, c[1], c[2], c[3], c[4]),
                      LAMBDA c :
                        CASE c[4] = 0 ->
                               Acc([qz \in Range(Q1D) |->
                                 Bt(c[1], qz) * DBu(qz, c[2], c[3], 0)], Q1D)
                          [] c[4] = 1 ->
                               Acc([qz \in Range(Q1D) |->
                                 Bt(c[1], qz) * DBu(qz, c[2], c[3], 1)], Q1D)
                          [] c[4] = 2 ->
                               Acc([qz \in Range(Q1D) |->
                                 Gt(c[1], qz) * DBu(qz, c[2], c[3], 2)], Q1D))]
        [] s = 6 ->
             \* cells <<dz, dy, qx, c>>
             [st EXCEPT !.sm.sm0 =
                Store(@, DZ \X DY \X QX \X Range(3),
                      LAMBDA c : View3(D1D, Q1D, c[1], c[2], c[3], c[4]),
                      LAMBDA c :
                        CASE c[4] = 0 ->
                               Acc([qy \in Range(Q1D) |->
                                 Bt(c[2], qy) * GDBu(c[1], qy, c[3], 0)], Q1D)
                          [] c[4] = 1 ->
                               Acc([qy \in Range(Q1D) |->
                                 Gt(c[2], qy) * GDBu(c[1], qy, c[3], 1)], Q1D)
                          [] c[4] = 2 ->
                               Acc([qy \in Range(Q1D) |->
                                 Bt(c[2], qy) * GDBu(c[1], qy, c[3], 2)], Q1D))]
        [] s = 7 ->
             [st EXCEPT !.y =
                AddStore(@, DZ \X DY \X DX,
                      LAMBDA c : c[3] + D1D * (c[2] + D1D * (c[1] + D1D * e)),
                      LAMBDA c : Acc([qx \in Range(Q1D) |->
                                   Gt(c[3], qx) * GGDBu(c[1], c[2], qx, 0)
                                   + Bt(c[3], qx) * GGDBu(c[1], c[2], qx, 1)
                                   + Bt(c[3], qx) * GGDBu(c[1], c[2], qx, 2)],
                                  Q1D))]

\* ------------------------------------------------------------------------
\* Kernel entry points.  A call returns [status, y]: "ok" with the new
\* output, or "abort" (MFEM_ABORT / a failed MFEM_VERIFY ends the process)
\* with the output as it was when the call ended.
\* ------------------------------------------------------------------------

\* DeviceDofQuadLimits::Get().MAX_D1D and .MAX_Q1D (general/forall.hpp)
MAX_D1D == 24
MAX_Q1D == 24

Return(y_) == [status |-> "ok", y |-> y_]

MFEM_ABORT(y_) == [status |-> "abort", y |-> y_]

\* host execution of a MFEM_FOREACH_THREAD kernel body: one thread, index 0
\* on every axis, that walks every loop with stride 1
HostThread == [x |-> 0, y |-> 0, z |-> 0]
HostBlock  == [x |-> 1, y |-> 1, z |-> 1]

\* PAConvectionApply2D without its MFEM_VERIFY(Q1D <= max_Q1D, "") line
PAConvectionApply2DUnchecked(T_D1D, T_Q1D, a, y_) ==
  LET D1D == IF T_D1D # 0 THEN T_D1D ELSE a.d1d
      Q1D == IF T_Q1D # 0 THEN T_Q1D ELSE a.q1d
  IN  IF ~(D1D <= MAX_D1D)
        THEN MFEM_ABORT(y_)
        ELSE Return(forall(a.ne,
                           LAMBDA e, yy : Apply2DElement(e, D1D, Q1D, a, yy),
                           y_))

PAConvectionApply2D(T_D1D, T_Q1D, a, y_) ==
  LET D1D == IF T_D1D # 0 THEN T_D1D ELSE a.d1d
      Q1D == IF T_Q1D # 0 THEN T_Q1D ELSE a.q1d
  IN  IF ~(D1D <= MAX_D1D) \/ ~(Q1D <= MAX_Q1D) THEN MFEM_ABORT(y_)
      ELSE Return(forall(a.ne,
                         LAMBDA e, yy : Apply2DElement(e, D1D, Q1D, a, yy),
                         y_))

PAConvectionApplyT2D(T_D1D, T_Q1D, a, y_) ==
  LET D1D == IF T_D1D # 0 THEN T_D1D ELSE a.d1d
      Q1D == IF T_Q1D # 0 THEN T_Q1D ELSE a.q1d
  IN  IF ~(D1D <= MAX_D1D) \/ ~(Q1D <= MAX_Q1D) THEN MFEM_ABORT(y_)
      ELSE Return(forall(a.ne,
                         LAMBDA e, yy : ApplyT2DElement(e, D1D, Q1D, a, yy),
                         y_))

PAConvectionApply3D(T_D1D, T_Q1D, a, y_) ==
  LET D1D == IF T_D1D # 0 THEN T_D1D ELSE a.d1d
      Q1D == IF T_Q1D # 0 THEN T_Q1D ELSE a.q1d
  IN  IF ~(D1D <= MAX_D1D) \/ ~(Q1D <= MAX_Q1D) THEN MFEM_ABORT(y_)
      ELSE Return(forall(a.ne,
                         LAMBDA e, yy : Apply3DElement(e, D1D, Q1D, a, yy),
                         y_))

PAConvectionApplyT3D(T_D1D, T_Q1D, a, y_) ==
  LET D1D == IF T_D1D # 0 THEN T_D1D ELSE a.d1d
      Q1D == IF T_Q1D # 0 THEN T_Q1D ELSE a.q1d
  IN  IF ~(D1D <= MAX_D1D) \/ ~(Q1D <= MAX_Q1D) THEN MFEM_ABORT(y_)
      ELSE Return(forall(a.ne,
                         LAMBDA e, yy : ApplyT3DElement(e, D1D, Q1D, a, yy),
                         y_))

\* The shared-memory kernels on the host: forall_2D_batch / forall_3D run the
\* body once per element, the shared arrays are fresh locals of each run.
\* Every instantiation in the file gives T_D1D and T_Q1D, so max_D1D = D1D
\* and max_Q1D = Q1D are the array extents.
SmemPAConvectionApply2D(T_D1D, T_Q1D, T_NBZ, a, y_) ==
  LET NBZ == IF T_NBZ # 0 THEN T_NBZ ELSE 1
      D1D == IF T_D1D # 0 THEN T_D1D ELSE a.d1d
      Q1D == IF T_Q1D # 0 THEN T_Q1D ELSE a.q1d
      body(e, yy) ==
        RunStages(SmemApply2DStages,
                  LAMBDA s, st : SmemApply2DStage(s, HostThread, HostBlock,
                                                  e, D1D, Q1D, a, st),
                  [sm |-> SmemApply2DShared(D1D, Q1D, NBZ), y |-> yy]).y
  IN  IF ~(D1D <= MAX_D1D) \/ ~(Q1D <= MAX_Q1D) THEN MFEM_ABORT(y_)
      ELSE Return(forall(a.ne, body, y_))

SmemPAConvectionApplyT2D(T_D1D, T_Q1D, T_NBZ, a, y_) ==
  LET NBZ == IF T_NBZ # 0 THEN T_NBZ ELSE 1
      D1D == IF T_D1D # 0 THEN T_D1D ELSE a.d1d
      Q1D == IF T_Q1D # 0 THEN T_Q1D ELSE a.q1d
      body(e, yy) ==
        RunStages(SmemApplyT2DStages,
                  LAMBDA s, st : SmemApplyT2DStage(s, HostThread, HostBlock,
                                                   e, D1D, Q1D, a, st),
                  [sm |-> SmemApplyT2DShared(D1D, Q1D, NBZ), y |-> yy]).y
  IN  IF ~(D1D <= MAX_D1D) \/ ~(Q1D <= MAX_Q1D) THEN MFEM_ABORT(y_)
      ELSE Return(forall(a.ne, body, y_))

SmemPAConvectionApply3D(T_D1D, T_Q1D, a, y_) ==
  LET D1D == IF T_D1D # 0 THEN T_D1D ELSE a.d1d
      Q1D == IF T_Q1D # 0 THEN T_Q1D ELSE a.q1d
      body(e, yy) ==
        RunStages(SmemApply3DStages,
                  LAMBDA s, st : SmemApply3DStage(s, HostThread, HostBlock,
                                                  e, D1D, Q1D, a, st),
                  [sm |-> SmemApply3DShared(D1D, Q1D), y |-> yy]).y
  IN  IF ~(D1D <= MAX_D1D) \/ ~(Q1D <= MAX_Q1D) THEN MFEM_ABORT(y_)
      ELSE Return(forall(a.ne, body, y_))

SmemPAConvectionApplyT3D(T_D1D, T_Q1D, a, y_) ==
  LET D1D == IF T_D1D # 0 THEN T_D1D ELSE a.d1d
      Q1D == IF T_Q1D # 0 THEN T_Q1D ELSE a.q1d
      body(e, yy) ==
        RunStages(SmemApplyT3DStages,
                  LAMBDA s, st : SmemApplyT3DStage(s, HostThread, HostBlock,
                                                   e, D1D, Q1D, a, st),
                  [sm |-> SmemApplyT3DShared(D1D, Q1D), y |-> yy]).y
  IN  IF ~(D1D <= MAX_D1D) \/ ~(Q1D <= MAX_Q1D) THEN MFEM_ABORT(y_)
      ELSE Return(forall(a.ne, body, y_))

\* ------------------------------------------------------------------------
\* Dispatch
\* ------------------------------------------------------------------------

\* v << k and the bitwise or of two non-negative ints
RECURSIVE ShiftLeft(_, _)
ShiftLeft(v, k) == IF k = 0 THEN v ELSE ShiftLeft(2 * v, k - 1)

RECURSIVE BitOr(_, _)
BitOr(m, n) ==
  IF m = 0 THEN n
  ELSE IF n = 0 THEN m
  ELSE (IF m % 2 = 1 \/ n % 2 = 1 THEN 1 ELSE 0)
       + 2 * BitOr(m \div 2, n \div 2)

\* the hexadecimal literal 0xhl
Hex(h, l) == 16 * h + l

\* a kernel instantiation: the function template and its arguments
Kernel(fn, T_D1D, T_Q1D, T_NBZ) ==
  [fn |-> fn, T_D1D |-> T_D1D, T_Q1D |-> T_Q1D, T_NBZ |-> T_NBZ]

NoKernel == Kernel("none", 0, 0, 0)

\* the history variable kernel before the first call
NotCalled == Kernel("not called", 0, 0, 0)

\* ApplySwitch2D with SmemPAConvectionApply2D<7,7,2> at case 0x77
ApplySwitch2DBatched(key) ==
  CASE key = Hex(2, 2) -> Kernel("SmemPAConvectionApply2D", 2, 2, 8)
    [] key = Hex(3, 3) -> Kernel("SmemPAConvectionApply2D", 3, 3, 4)
    [] key = Hex(3, 4) -> Kernel("SmemPAConvectionApply2D", 3, 4, 4)
    [] key = Hex(4, 4) -> Kernel("SmemPAConvectionApply2D", 4, 4, 4)
    [] key = Hex(4, 6) -> Kernel("SmemPAConvectionApply2D", 4, 6, 4)
    [] key = Hex(5, 5) -> Kernel("SmemPAConvectionApply2D", 5, 5, 2)
    [] key = Hex(5, 8) -> Kernel("SmemPAConvectionApply2D", 5, 8, 2)
    [] key = Hex(6, 6) -> Kernel("SmemPAConvectionApply2D", 6, 6, 1)
    [] key = Hex(7, 7) -> Kernel("SmemPAConvectionApply2D", 7, 7, 2)
    [] key = Hex(8, 8) -> Kernel("SmemPAConvectionApply2D", 8, 8, 1)
    [] key = Hex(9, 9) -> Kernel("SmemPAConvectionApply2D", 9, 9, 1)
    [] OTHER           -> Kernel("PAConvectionApply2D", 0, 0, 0)

\* the switch of PAConvectionApply for dim == 2
ApplySwitch2D(key) ==
  CASE key = Hex(2, 2) -> Kernel("SmemPAConvectionApply2D", 2, 2, 8)
    [] key = Hex(3, 3) -> Kernel("SmemPAConvectionApply2D", 3, 3, 4)
    [] key = Hex(3, 4) -> Kernel("SmemPAConvectionApply2D", 3, 4, 4)
    [] key = Hex(4, 4) -> Kernel("SmemPAConvectionApply2D", 4, 4, 4)
    [] key = Hex(4, 6) -> Kernel("SmemPAConvectionApply2D", 4, 6, 4)
    [] key = Hex(5, 5) -> Kernel("SmemPAConvectionApply2D", 5, 5, 2)
    [] key = Hex(5, 8) -> Kernel("SmemPAConvectionApply2D", 5, 8, 2)
    [] key = Hex(6, 6) -> Kernel("SmemPAConvectionApply2D", 6, 6, 1)
    [] key = Hex(7, 7) -> Kernel("SmemPAConvectionApply2D", 7, 7, 1)
    [] key = Hex(8, 8) -> Kernel("SmemPAConvectionApply2D", 8, 8, 1)
    [] key = Hex(9, 9) -> Kernel("SmemPAConvectionApply2D", 9, 9, 1)
    [] OTHER           -> Kernel("PAConvectionApply2D", 0, 0, 0)

\* the switch of PAConvectionApply for dim == 3
ApplySwitch3D(key) ==
  CASE key = Hex(2, 2) -> Kernel("SmemPAConvectionApply3D", 2, 2, 0)
    [] key = Hex(2, 3) -> Kernel("SmemPAConvectionApply3D", 2, 3, 0)
    [] key = Hex(2, 4) -> Kernel("SmemPAConvectionApply3D", 2, 4, 0)
    [] key = Hex(2, 6) -> Kernel("SmemPAConvectionApply3D", 2, 6, 0)
    [] key = Hex(3, 4) -> Kernel("SmemPAConvectionApply3D", 3, 4, 0)
    [] key = Hex(3, 5) -> Kernel("SmemPAConvectionApply3D", 3, 5, 0)
    [] key = Hex(4, 5) -> Kernel("SmemPAConvectionApply3D", 4, 5, 0)
    [] key = Hex(4, 8) -> Kernel("SmemPAConvectionApply3D", 4, 8, 0)
    [] key = Hex(5, 6) -> Kernel("SmemPAConvectionApply3D", 5, 6, 0)
    [] key = Hex(6, 7) -> Kernel("SmemPAConvectionApply3D", 6, 7, 0)
    [] key = Hex(7, 8) -> Kernel("SmemPAConvectionApply3D", 7, 8, 0)
    [] key = Hex(8, 9) -> Kernel("SmemPAConvectionApply3D", 8, 9, 0)
    [] OTHER           -> Kernel("PAConvectionApply3D", 0, 0, 0)

\* the switch of PAConvectionApplyT for dim == 2
ApplyTSwitch2D(key) ==
  CASE key = Hex(2, 2) -> Kernel("SmemPAConvectionApplyT2D", 2, 2, 8)
    [] key = Hex(3, 3) -> Kernel("SmemPAConvectionApplyT2D", 3, 3, 4)
    [] key = Hex(3, 4) -> Kernel("SmemPAConvectionApplyT2D", 3, 4, 4)
    [] key = Hex(4, 4) -> Kernel("SmemPAConvectionApplyT2D", 4, 4, 4)
    [] key = Hex(4, 6) -> Kernel("SmemPAConvectionApplyT2D", 4, 6, 4)
    [] key = Hex(5, 5) -> Kernel("SmemPAConvectionApplyT2D", 5, 5, 2)
    [] key = Hex(5, 8) -> Kernel("SmemPAConvectionApplyT2D", 5, 8, 2)
    [] key = Hex(6, 6) -> Kernel("SmemPAConvectionApplyT2D", 6, 6, 1)
    [] key = Hex(7, 7) -> Kernel("SmemPAConvectionApplyT2D", 7, 7, 1)
    [] key = Hex(8, 8) -> Kernel("SmemPAConvectionApplyT2D", 8, 8, 1)
    [] key = Hex(9, 9) -> Kernel("SmemPAConvectionApplyT2D", 9, 9, 1)
    [] OTHER           -> Kernel("PAConvectionApplyT2D", 0, 0, 0)

\* ApplyTSwitch3D without its case 0x26
ApplyTSwitch3DWithout26(key) ==
  CASE key = Hex(2, 2) -> Kernel("SmemPAConvectionApplyT3D", 2, 2, 0)
    [] key = Hex(2, 3) -> Kernel("SmemPAConvectionApplyT3D", 2, 3, 0)
    [] key = Hex(2, 4) -> Kernel("SmemPAConvectionApplyT3D", 2, 4, 0)
    [] key = Hex(3, 4) -> Kernel("SmemPAConvectionApplyT3D", 3, 4, 0)
    [] key = Hex(3, 5) -> Kernel("SmemPAConvectionApplyT3D", 3, 5, 0)
    [] key = Hex(4, 5) -> Kernel("SmemPAConvectionApplyT3D", 4, 5, 0)
    [] key = Hex(4, 8) -> Kernel("SmemPAConvectionApplyT3D", 4, 8, 0)
    [] key = Hex(5, 6) -> Kernel("SmemPAConvectionApplyT3D", 5, 6, 0)
    [] key = Hex(6, 7) -> Kernel("SmemPAConvectionApplyT3D", 6, 7, 0)
    [] key = Hex(7, 8) -> Kernel("SmemPAConvectionApplyT3D", 7, 8, 0)
    [] key = Hex(8, 9) -> Kernel("SmemPAConvectionApplyT3D", 8, 9, 0)
    [] OTHER           -> Kernel("PAConvectionApplyT3D", 0, 0, 0)

\* the switch of PAConvectionApplyT for dim == 3
ApplyTSwitch3D(key) ==
  CASE key = Hex(2, 2) -> Kernel("SmemPAConvectionApplyT3D", 2, 2, 0)
    [] key = Hex(2, 3) -> Kernel("SmemPAConvectionApplyT3D", 2, 3, 0)
    [] key = Hex(2, 4) -> Kernel("SmemPAConvectionApplyT3D", 2, 4, 0)
    [] key = Hex(2, 6) -> Kernel("SmemPAConvectionApplyT3D", 2, 6, 0)
    [] key = Hex(3, 4) -> Kernel("SmemPAConvectionApplyT3D", 3, 4, 0)
    [] key = Hex(3, 5) -> Kernel("SmemPAConvectionApplyT3D", 3, 5, 0)
    [] key = Hex(4, 5) -> Kernel("SmemPAConvectionApplyT3D", 4, 5, 0)
    [] key = Hex(4, 8) -> Kernel("SmemPAConvectionApplyT3D", 4, 8, 0)
    [] key = Hex(5, 6) -> Kernel("SmemPAConvectionApplyT3D", 5, 6, 0)
    [] key = Hex(6, 7) -> Kernel("SmemPAConvectionApplyT3D", 6, 7, 0)
    [] key = Hex(7, 8) -> Kernel("SmemPAConvectionApplyT3D", 7, 8, 0)
    [] key = Hex(8, 9) -> Kernel("SmemPAConvectionApplyT3D", 8, 9, 0)
    [] OTHER           -> Kernel("PAConvectionApplyT3D", 0, 0, 0)

\* the kernel PAConvectionApply reaches, NoKernel where it reaches MFEM_ABORT
ApplyKernel(dim, D1D, Q1D) ==
  IF dim = 2 THEN ApplySwitch2D(BitOr(ShiftLeft(D1D, 4), Q1D))
  ELSE IF dim = 3 THEN ApplySwitch3D(BitOr(ShiftLeft(D1D, 4), Q1D))
  ELSE NoKernel

\* ApplyTKernel looking into the tables of PAConvectionApply
ForwardTables(dim, D1D, Q1D) == ApplyKernel(dim, D1D, Q1D)

ApplyTKernel(dim, D1D, Q1D) ==
  IF dim = 2 THEN ApplyTSwitch2D(BitOr(ShiftLeft(D1D, 4), Q1D))
  ELSE IF dim = 3 THEN ApplyTSwitch3D(BitOr(ShiftLeft(D1D, 4), Q1D))
  ELSE NoKernel

\* the generic kernels of the file; every other kernel is a shared-memory one
GenericKernels ==
  {"PAConvectionApply2D", "PAConvectionApply3D",
   "PAConvectionApplyT2D", "PAConvectionApplyT3D"}

\* the call "return k<...>(NE,B,G,Bt,Gt,op,x,y[,D1D,Q1D])" of a switch: only
\* the default labels pass the runtime sizes, the others leave d1d = q1d = 0
Call(k, D1D, Q1D, NE, B, G, Bt, Gt, op, x, y) ==
  LET g == k.fn \in GenericKernels
      a == [ne |-> NE, b |-> B, g |-> G, bt |-> Bt, gt |-> Gt,
            op_ |-> op, x_ |-> x,
            d1d |-> IF g THEN D1D ELSE 0, q1d |-> IF g THEN Q1D ELSE 0]
  IN  CASE k.fn = "PAConvectionApply2D" ->
             PAConvectionApply2D(k.T_D1D, k.T_Q1D, a, y)
        [] k.fn = "PAConvectionApply3D" ->
             PAConvectionApply3D(k.T_D1D, k.T_Q1D, a, y)
        [] k.fn = "PAConvectionApplyT2D" ->
             PAConvectionApplyT2D(k.T_D1D, k.T_Q1D, a, y)
        [] k.fn = "PAConvectionApplyT3D" ->
             PAConvectionApplyT3D(k.T_D1D, k.T_Q1D, a, y)
        [] k.fn = "SmemPAConvectionApply2D" ->
             SmemPAConvectionApply2D(k.T_D1D, k.T_Q1D, k.T_NBZ, a, y)
        [] k.fn = "SmemPAConvectionApply3D" ->
             SmemPAConvectionApply3D(k.T_D1D, k.T_Q1D, a, y)
        [] k.fn = "SmemPAConvectionApplyT2D" ->
             SmemPAConvectionApplyT2D(k.T_D1D, k.T_Q1D, k.T_NBZ, a, y)
        [] k.fn = "SmemPAConvectionApplyT3D" ->
             SmemPAConvectionApplyT3D(k.T_D1D, k.T_Q1D, a, y)

\* PAConvectionApply without its closing MFEM_ABORT line
PAConvectionApplyNoAbort(dim, D1D, Q1D, NE, B, G, Bt, Gt, op, x, y) ==
  LET k == ApplyKernel(dim, D1D, Q1D)
  IN  IF k = NoKernel THEN Return(y)
      ELSE Call(k, D1D, Q1D, NE, B, G, Bt, Gt, op, x, y)

PAConvectionApply(dim, D1D, Q1D, NE, B, G, Bt, Gt, op, x, y) ==
  LET k == ApplyKernel(dim, D1D, Q1D)
  IN  IF k = NoKernel THEN MFEM_ABORT(y)
      ELSE Call(k, D1D, Q1D, NE, B, G, Bt, Gt, op, x, y)

PAConvectionApplyT(dim, D1D, Q1D, NE, B, G, Bt, Gt, op, x, y) ==
  LET k == ApplyTKernel(dim, D1D, Q1D)
  IN  IF k = NoKernel THEN MFEM_ABORT(y)
      ELSE Call(k, D1D, Q1D, NE, B, G, Bt, Gt, op, x, y)

\* ------------------------------------------------------------------------
\* Setup
\* ------------------------------------------------------------------------

\* The coefficient buffer is carried as [v, n]: v the values, n how often
\* each cell has been assigned.  "y(q,c,e) = val" is Assign.
\* Assign storing the value with its sign changed
AssignNegated(o, i, val) ==
  [v |-> [o.v EXCEPT ![i] = -val], n |-> [o.n EXCEPT ![i] = @ + 1]]

\* Assign adding to the cell: "y(q,c,e) += val"
AssignAdd(o, i, val) ==
  [v |-> [o.v EXCEPT ![i] = @ + val], n |-> [o.n EXCEPT ![i] = @ + 1]]

Assign(o, i, val) ==
  [v |-> [o.v EXCEPT ![i] = val], n |-> [o.n EXCEPT ![i] = @ + 1]]

Size(v) == Cardinality(DOMAIN v)

\* PAConvectionSetup2D reading the Jacobian transposed (J12 and J21 exchanged)
PAConvectionSetup2DTransposed(NQ, NE, w, j, vel, alpha, op) ==
  LET DIM == 2
      const_v == Size(vel) = DIM
      J(q, i, k, e) == j[q + NQ * (k + DIM * (i + DIM * e))]
      V(c, q, e) == vel[c + DIM * (q + NQ * e)]
      y(q, c, e) == SetupView(NQ, DIM, q, c, e)
      body(q_global, o) ==
        LET e == q_global \div NQ
            q == q_global % NQ
            w_ == alpha * w[q]
            wx == w_ * (IF const_v THEN V(0, 0, 0) ELSE V(0, q, e))
            wy == w_ * (IF const_v THEN V(1, 0, 0) ELSE V(1, q, e))
        IN  Assign(Assign(o, y(q, 0, e),
                          wx * J(q, 1, 1, e) - wy * J(q, 0, 1, e)),
                   y(q, 1, e), (-wx) * J(q, 1, 0, e) + wy * J(q, 0, 0, e))
  IN  forall(NE * NQ, body, op)

PAConvectionSetup2D(NQ, NE, w, j, vel, alpha, op) ==
  LET DIM == 2
      const_v == Size(vel) = DIM
      J(q, i, k, e) == j[q + NQ * (i + DIM * (k + DIM * e))]
      V(c, q, e) == vel[c + DIM * (q + NQ * e)]
      y(q, c, e) == SetupView(NQ, DIM, q, c, e)
      body(q_global, o) ==
        LET e == q_global \div NQ
            q == q_global % NQ
            J11 == J(q, 0, 0, e)
            J21 == J(q, 1, 0, e)
            J12 == J(q, 0, 1, e)
            J22 == J(q, 1, 1, e)
            w_ == alpha * w[q]
            v0 == IF const_v THEN V(0, 0, 0) ELSE V(0, q, e)
            v1 == IF const_v THEN V(1, 0, 0) ELSE V(1, q, e)
            wx == w_ * v0
            wy == w_ * v1
        IN  Assign(Assign(o, y(q, 0, e), wx * J22 - wy * J12),
                   y(q, 1, e), (-wx) * J21 + wy * J11)
  IN  forall(NE * NQ, body, op)

PAConvectionSetup3D(NQ, NE, w, j, vel, alpha, op) ==
  LET DIM == 3
      SDIM == DIM
      const_v == Size(vel) = DIM
      J(q, i, k, e) == j[q + NQ * (i + SDIM * (k + DIM * e))]
      V(c, q, e) == vel[c + 3 * (q + NQ * e)]
      y(q, c, e) == SetupView(NQ, 3, q, c, e)
      body(q_global, o) ==
        LET e == q_global \div NQ
            q == q_global % NQ
            J11 == J(q, 0, 0, e)
            J12 == J(q, 0, 1, e)
            J13 == J(q, 0, 2, e)
            J21 == J(q, 1, 0, e)
            J22 == J(q, 1, 1, e)
            J23 == J(q, 1, 2, e)
            J31 == J(q, 2, 0, e)
            J32 == J(q, 2, 1, e)
            J33 == J(q, 2, 2, e)
            w_ == alpha * w[q]
            v0 == IF const_v THEN V(0, 0, 0) ELSE V(0, q, e)
            v1 == IF const_v THEN V(1, 0, 0) ELSE V(1, q, e)
            v2 == IF const_v THEN V(2, 0, 0) ELSE V(2, q, e)
            wx == w_ * v0
            wy == w_ * v1
            wz == w_ * v2
            A11 == (J22 * J33) - (J23 * J32)
            A12 == (J32 * J13) - (J12 * J33)
            A13 == (J12 * J23) - (J22 * J13)
            A21 == (J31 * J23) - (J21 * J33)
            A22 == (J11 * J33) - (J13 * J31)
            A23 == (J21 * J13) - (J11 * J23)
            A31 == (J21 * J32) - (J31 * J22)
            A32 == (J31 * J12) - (J11 * J32)
            A33 == (J11 * J22) - (J12 * J21)
        IN  Assign(Assign(Assign(o,
                   y(q, 0, e), wx * A11 + wy * A12 + wz * A13),
                   y(q, 1, e), wx * A21 + wy * A22 + wz * A23),
                   y(q, 2, e), wx * A31 + wy * A32 + wz * A33)
  IN  forall(NE * NQ, body, op)

\* PAConvectionSetup without its dim == 1 line
PAConvectionSetupNoCheck(dim, NQ, NE, W, J, coeff, alpha, op) ==
  LET op2 == IF dim = 2
             THEN PAConvectionSetup2D(NQ, NE, W, J, coeff, alpha, op)
             ELSE op
      op3 == IF dim = 3
             THEN PAConvectionSetup3D(NQ, NE, W, J, coeff, alpha, op2)
             ELSE op2
  IN  [status |-> "ok", op |-> op3]

\* returns [status, op]
PAConvectionSetup(dim, NQ, NE, W, J, coeff, alpha, op) ==
  IF dim = 1 THEN [status |-> "abort", op |-> op]
  ELSE LET op2 == IF dim = 2
                  THEN PAConvectionSetup2D(NQ, NE, W, J, coeff, alpha, op)
                  ELSE op
           op3 == IF dim = 3
                  THEN PAConvectionSetup3D(NQ, NE, W, J, coeff, alpha, op2)
                  ELSE op2
       IN  [status |-> "ok", op |-> op3]

\* ------------------------------------------------------------------------
\* The caller's side: mesh, finite element space, integration rule and
\* coefficient, as the record env = [dim, D, Q, NE, seed, const_v, scenario].
\* The scenario is "any" (all data of data set seed), "zero" (the velocity
\* is the zero vector) or "affine" (identity Jacobians, velocity (1,0),
\* alpha = 1, derivative tables whose rows sum to zero, x constant one).
\* ------------------------------------------------------------------------

\* input data set number seed, array number salt: n entries in -2..2
Gen(seed, salt, n) ==
  [i \in Range(n) |->
     ((7 * i + 3 * salt + 5 * seed + i * salt + ((i * i) % 3)
       + ((i \div 3) * seed)) % 5) - 2]

\* the cols x rows table mt(c, r) = m(r, c) of a rows x cols table m
Transpose(m, rows, cols) ==
  [i \in Range(rows * cols) |-> m[(i \div cols) + rows * (i % cols)]]

RECURSIVE Pow(_, _)
Pow(b, n) == IF n = 0 THEN 1 ELSE b * Pow(b, n - 1)

\* el.GetDofToQuad(*ir, DofToQuad::TENSOR): B and G are Q x D, Bt and Gt
\* their transposes
DofToQuad(E) ==
  LET b == Gen(E.seed, 1, E.Q * E.D)
      g0 == Gen(E.seed, 2, E.Q * E.D)
      g == IF E.scenario # "affine" THEN g0
           ELSE [i \in Range(E.Q * E.D) |->
                   IF i \div E.Q < E.D - 1 THEN g0[i]
                   ELSE -Sum(LAMBDA d : g0[(i % E.Q) + E.Q * d], E.D - 1)]
  IN  [ndof |-> E.D, nqpt |-> E.Q, B |-> b, G |-> g,
       Bt |-> Transpose(b, E.Q, E.D), Gt |-> Transpose(g, E.Q, E.D)]

\* ir->GetNPoints() of the tensor-product rule
GetNPoints(E) == Pow(E.Q, E.dim)

\* ir->GetWeights(), geom->J and the CoefficientVector vel (COMPRESSED: dim
\* entries for a constant velocity, dim per quadrature point otherwise)
GetWeights(E) == Gen(E.seed, 3, GetNPoints(E))

Jacobians(E) ==
  LET NQ == GetNPoints(E)
      n == NQ * E.dim * E.dim * E.NE
  IN  IF E.scenario # "affine" THEN Gen(E.seed, 4, n)
      ELSE [i \in Range(n) |->
              IF (i \div NQ) % E.dim = (i \div (NQ * E.dim)) % E.dim
              THEN 1 ELSE 0]

Velocity(E) ==
  LET n == IF E.const_v THEN E.dim ELSE E.dim * GetNPoints(E) * E.NE
  IN  CASE E.scenario = "zero" -> Zeros(n)
        [] E.scenario = "affine" -> [i \in Range(n) |-> IF i = 0 THEN 1 ELSE 0]
        [] OTHER -> Gen(E.seed, 5, n)

\* the integrator's alpha
Alpha(E) ==
  IF E.scenario = "affine" THEN 1 ELSE IF E.seed % 2 = 0 THEN 1 ELSE -2

\* an E-vector of the space: D^dim dofs per element
VSize(E) == Pow(E.D, E.dim) * E.NE

InputVector(E, i) ==
  IF E.scenario = "affine" THEN [k \in Range(VSize(E)) |-> 1]
  ELSE Gen(E.seed, 10 + i, VSize(E))

InitialOutput(E, i) == Gen(E.seed, 20 + i, VSize(E))

\* some coefficient buffer of the right size
Coefficients(E) == Gen(E.seed, 6, E.dim * GetNPoints(E) * E.NE)

\* ------------------------------------------------------------------------
\* State
\* ------------------------------------------------------------------------

VARIABLES
  env,       \* what the caller built (inputs of the run)
  dim, nq, ne, dofs1D, quad1D,   \* fields of the ConvectionIntegrator
  maps,      \* the DofToQuad the integrator points to
  pa_data,   \* the operator coefficient buffer
  opWrites,  \* history: how often Setup assigned each cell of pa_data
  assembled, \* history: AssemblePA has been called
  x, y,      \* the caller's vectors, by slot
  y0,        \* history: y before the first call
  calls,     \* history: completed forward (F) and transpose (T) calls
  status,    \* "ok"; "abort" once MFEM_ABORT / MFEM_VERIFY has fired; "fault"
             \* and "undefined" for the ends of a call before AssemblePA
  kernel,    \* history: the kernel of the last call
  dev,       \* a kernel in flight on the device: blocks, threads, shared mem
  ref,       \* history: what the generic kernel makes of the call in flight
  mat,       \* a DenseSymmetricMatrix: data (a Memory), height, width
  heap,      \* the data arrays a DenseSymmetricMatrix may point to
  access,    \* history: the last access to the entries of mat
  main       \* the locals of main() of the multidomain miniapp

\* the state outside the ConvectionIntegrator
hostVars == <<mat, heap, access, main>>

vars == <<hostVars, uninit, env, dim, nq, ne, dofs1D, quad1D, maps, pa_data,
          opWrites, assembled, x, y, y0, calls, status, kernel, dev, ref>>

\* no DenseSymmetricMatrix, no miniapp in this run
NoHost == [none |-> TRUE]

UninitValues == {-3, 3}

NoMaps == [ndof |-> 0, nqpt |-> 0, B |-> <<>>, G |-> <<>>,
           Bt |-> <<>>, Gt |-> <<>>]

Idle == [run |-> FALSE, k |-> NoKernel, slot |-> 0, transpose |-> FALSE,
         pend |-> {}, cur |-> -1, tpc |-> <<>>, sm |-> <<>>]

\* the state after construction of the integrator, for a caller with the
\* input vectors xs and the output vectors ys (sequences, one entry a slot)
Constructed(E, xs, ys) ==
  /\ env = E
  /\ uninit \in UninitValues
  /\ dim = uninit /\ nq = uninit /\ ne = uninit
  /\ dofs1D = uninit /\ quad1D = uninit
  /\ maps = NoMaps
  /\ pa_data = <<>>
  /\ opWrites = <<>>
  /\ assembled = FALSE
  /\ x = xs
  /\ y = ys
  /\ y0 = ys
  /\ calls = [i \in DOMAIN xs |-> [F |-> 0, T |-> 0]]
  /\ status = "ok"
  /\ kernel = NotCalled
  /\ dev = Idle
  /\ mat = NoHost /\ heap = NoHost /\ access = NoHost /\ main = NoHost
  /\ ref = <<>>

Calls(i) == calls[i].F + calls[i].T

\* ConvectionIntegrator::AssemblePA (device without the CEED backend) on
\* the mesh, space, rule and coefficient E.  pa_data.SetSize keeps the
\* storage, contents included, when the size does not change, and leaves a
\* newly allocated one unwritten.
AssembleFor(E) ==
  /\ status = "ok"
  /\ dev = Idle
  /\ LET dims == E.dim
         symmDims == dims
         nq1 == GetNPoints(E)
         size == symmDims * nq1 * E.NE
     IN  \E r \in {PAConvectionSetup(E.dim, nq1, E.NE, GetWeights(E),
                                     Jacobians(E), Velocity(E),
                                     Alpha(E),
                                     [v |-> IF Size(pa_data) = size
                                            THEN pa_data ELSE Uninit(size),
                                      n |-> Zeros(size)])} :
         /\ nq' = nq1
         /\ dim' = E.dim
         /\ ne' = E.NE
         /\ maps' = DofToQuad(E)
         /\ dofs1D' = DofToQuad(E).ndof
         /\ quad1D' = DofToQuad(E).nqpt
         /\ pa_data' = r.op.v
         /\ opWrites' = r.op.n
         /\ status' = r.status
  /\ assembled' = TRUE
  /\ env' = E
  /\ UNCHANGED <<hostVars, uninit, x, y, y0, calls, kernel, dev, ref>>

\* the first AssemblePA of the integrator
AssemblePA ==
  /\ ~assembled
  /\ AssembleFor(env)

\* the caller changes the mesh data and the coefficient (another data set,
\* the other velocity layout) and calls AssemblePA again
AssemblePAAgain ==
  /\ assembled
  /\ \E sd \in 0 .. MaxSeed, cv \in BOOLEAN :
       /\ <<sd, cv>> # <<env.seed, env.const_v>>
       /\ AssembleFor([env EXCEPT !.seed = sd, !.const_v = cv])

\* AddMultPA / AddMultTransposePA on an integrator AssemblePA was never
\* called on.  Neither function tests for that: dim, dofs1D, quad1D and ne
\* are read as they were left (never written), and k is what the dispatch
\* makes of them.  Without a kernel for them the call ends in "Unknown
\* kernel."; with one, the kernel reads the tables through the pointer maps,
\* which points nowhere: the read faults (the process dies without a
\* diagnostic), or it yields whatever lies there and the call returns, and
\* what the program's memory then holds is undefined (it is followed no
\* further, and y is kept as it was in the model).
CallBeforeAssemblePA(k) ==
  /\ ~assembled
  /\ kernel' = k
  /\ IF k = NoKernel THEN status' = "abort"
     ELSE \/ status' = "fault"
          \/ status' = "undefined"
  /\ UNCHANGED <<hostVars, uninit, env, dim, nq, ne, dofs1D, quad1D, maps, pa_data,
                 opWrites, assembled, x, y, y0, calls, dev, ref>>

\* AddMultPA with a dispatch that looks at the history: a slot that has been
\* multiplied before is given the generic kernel
AddMultPAByHistory(i) ==
  /\ status = "ok"
  /\ dev = Idle
  /\ assembled
  /\ dim \in {2, 3}
  /\ Calls(i) < MaxCalls
  /\ \E k \in {IF Calls(i) = 0 THEN ApplyKernel(dim, dofs1D, quad1D)
               ELSE IF dim = 2 THEN Kernel("PAConvectionApply2D", 0, 0, 0)
               ELSE Kernel("PAConvectionApply3D", 0, 0, 0)} :
       /\ \E r \in {Call(k, dofs1D, quad1D, ne, maps.B, maps.G, maps.Bt,
                          maps.Gt, pa_data, x[i], y[i])} :
             /\ y' = [y EXCEPT ![i] = r.y]
             /\ status' = r.status
             /\ calls' = IF r.status = "ok"
                         THEN [calls EXCEPT ![i].F = @ + 1] ELSE calls
       /\ kernel' = k
  /\ UNCHANGED <<hostVars, uninit, env, dim, nq, ne, dofs1D, quad1D, maps, pa_data,
                 opWrites, assembled, x, y0, dev, ref>>

\* AddMultTransposePA with a kernel that takes the coefficient buffer for
\* writing and clears what it has read
AddMultTransposePAClearsOp(i) ==
  /\ status = "ok"
  /\ dev = Idle
  /\ assembled
  /\ Calls(i) < MaxCalls
  /\ \E r \in {PAConvectionApplyT(dim, dofs1D, quad1D, ne,
                                  maps.B, maps.G, maps.Bt, maps.Gt,
                                  pa_data, x[i], y[i])} :
        /\ y' = [y EXCEPT ![i] = r.y]
        /\ status' = r.status
        /\ calls' = IF r.status = "ok"
                    THEN [calls EXCEPT ![i].T = @ + 1] ELSE calls
        /\ pa_data' = IF r.status = "ok" THEN Zeros(Size(pa_data))
                      ELSE pa_data
  /\ kernel' = ApplyTKernel(dim, dofs1D, quad1D)
  /\ UNCHANGED <<hostVars, uninit, env, dim, nq, ne, dofs1D, quad1D, maps,
                 opWrites, assembled, x, y0, dev, ref>>

\* ConvectionIntegrator::AddMultPA(x[i], y[i]) run on the host
AddMultPA(i) ==
  /\ status = "ok"
  /\ dev = Idle
  /\ \/ CallBeforeAssemblePA(ApplyKernel(dim, dofs1D, quad1D))
     \/ /\ assembled
        /\ Calls(i) < MaxCalls
        /\ \E r \in {PAConvectionApply(dim, dofs1D, quad1D, ne,
                                       maps.B, maps.G, maps.Bt, maps.Gt,
                                       pa_data, x[i], y[i])} :
              /\ y' = [y EXCEPT ![i] = r.y]
              /\ status' = r.status
              /\ calls' = IF r.status = "ok"
                          THEN [calls EXCEPT ![i].F = @ + 1] ELSE calls
        /\ kernel' = ApplyKernel(dim, dofs1D, quad1D)
        /\ UNCHANGED <<hostVars, uninit, env, dim, nq, ne, dofs1D, quad1D, maps,
                       pa_data, opWrites, assembled, x, y0, dev, ref>>

\* ConvectionIntegrator::AddMultTransposePA(x[i], y[i]) run on the host
AddMultTransposePA(i) ==
  /\ status = "ok"
  /\ dev = Idle
  /\ \/ CallBeforeAssemblePA(ApplyTKernel(dim, dofs1D, quad1D))
     \/ /\ assembled
        /\ Calls(i) < MaxCalls
        /\ \E r \in {PAConvectionApplyT(dim, dofs1D, quad1D, ne,
                                        maps.B, maps.G, maps.Bt, maps.Gt,
                                        pa_data, x[i], y[i])} :
              /\ y' = [y EXCEPT ![i] = r.y]
              /\ status' = r.status
              /\ calls' = IF r.status = "ok"
                          THEN [calls EXCEPT ![i].T = @ + 1] ELSE calls
        /\ kernel' = ApplyTKernel(dim, dofs1D, quad1D)
        /\ UNCHANGED <<hostVars, uninit, env, dim, nq, ne, dofs1D, quad1D, maps,
                       pa_data, opWrites, assembled, x, y0, dev, ref>>

\* ------------------------------------------------------------------------
\* Spec: the life of one integrator.  AssemblePA, then forward and transpose
\* products into one output vector.
\* ------------------------------------------------------------------------

Env(dm, D, Q, NE, seed, const_v) ==
  [dim |-> dm, D |-> D, Q |-> Q, NE |-> NE, seed |-> seed,
   const_v |-> const_v, scenario |-> "any"]

Scenario(E, sc) == [E EXCEPT !.scenario = sc]

\* (D, Q) pairs small enough to run every kernel on
SmallShapes == {<<2, 2>>, <<2, 3>>, <<3, 3>>}

\* 2D pairs beyond 4 bits of Q or beyond the limits; one element each
LargeShapes == {<<3, 19>>, <<2, 34>>, <<2, 25>>, <<25, 2>>}

\* spatial dimensions a caller may hand over
Dims == 0 .. 4

Seeds == 0 .. MaxSeed

\* the velocity is a constant vector for half of the callers
ConstantVelocity(NE, seed) == (NE + seed) % 2 = 0

Envs ==
  {Env(dm, s[1], s[2], NE, seed, ConstantVelocity(NE, seed)) :
     dm \in {2, 3}, s \in SmallShapes, NE \in 1 .. MaxNE, seed \in Seeds}
  \cup {Env(dm, 2, 2, NE, seed, TRUE) :
          dm \in Dims \ {2, 3}, NE \in 1 .. MaxNE, seed \in Seeds}
  \cup {Env(2, s[1], s[2], 1, seed, TRUE) : s \in LargeShapes, seed \in Seeds}

Init ==
  \E E \in Envs :
     Constructed(E, <<InputVector(E, 1)>>, <<InitialOutput(E, 1)>>)

Next ==
  \/ AssemblePA
  \/ AddMultPA(1)
  \/ AddMultTransposePA(1)

Spec == Init /\ [][Next]_vars

\* ------------------------------------------------------------------------
\* SpecKernel: one direct call of one kernel instantiation, on an arbitrary
\* coefficient buffer
\* ------------------------------------------------------------------------

KernelEnvs ==
  {Env(dm, s[1], s[2], NE, seed, TRUE) :
     dm \in {2, 3}, s \in SmallShapes, NE \in 1 .. MaxNE, seed \in Seeds}
  \cup {Env(2, 3, 4, NE, seed, TRUE) : NE \in 1 .. MaxNE, seed \in Seeds}
  \cup {Env(dm, 2, 2, NE, seed, TRUE) :
          dm \in Dims \ {2, 3}, NE \in 1 .. MaxNE, seed \in Seeds}

TransposeKernels ==
  {"PAConvectionApplyT2D", "PAConvectionApplyT3D",
   "SmemPAConvectionApplyT2D", "SmemPAConvectionApplyT3D"}

Kernels2D ==
  {"PAConvectionApply2D", "PAConvectionApplyT2D",
   "SmemPAConvectionApply2D", "SmemPAConvectionApplyT2D"}

Kernels3D ==
  {"PAConvectionApply3D", "PAConvectionApplyT3D",
   "SmemPAConvectionApply3D", "SmemPAConvectionApplyT3D"}

\* the instantiation of fn for the sizes D, Q: the generic kernels take them
\* at run time, the shared-memory kernels as template arguments (with the
\* batch size of the dispatch table where the table has the pair, 1 if not)
Instance(fn, D, Q) ==
  LET k == ApplySwitch2D(Hex(D, Q))
  IN  IF fn \in GenericKernels THEN Kernel(fn, 0, 0, 0)
      ELSE IF fn \in Kernels3D THEN Kernel(fn, D, Q, 0)
      ELSE Kernel(fn, D, Q, IF k.fn \in GenericKernels THEN 1 ELSE k.T_NBZ)

CallKernel(i) ==
  /\ status = "ok"
  /\ dev = Idle
  /\ Calls(i) = 0
  /\ env.dim \in {2, 3}
  /\ \E fn \in (IF env.dim = 2 THEN Kernels2D ELSE Kernels3D) :
       LET k == Instance(fn, env.D, env.Q)
           m == DofToQuad(env)
       IN  \E r \in {Call(k, env.D, env.Q, env.NE, m.B, m.G, m.Bt, m.Gt,
                          Coefficients(env), x[i], y[i])} :
             /\ y' = [y EXCEPT ![i] = r.y]
             /\ status' = r.status
             /\ kernel' = k
             /\ calls' = IF r.status # "ok" THEN calls
                         ELSE IF fn \in TransposeKernels
                         THEN [calls EXCEPT ![i].T = @ + 1]
                         ELSE [calls EXCEPT ![i].F = @ + 1]
  /\ UNCHANGED <<hostVars, uninit, env, dim, nq, ne, dofs1D, quad1D, maps, pa_data,
                 opWrites, assembled, x, y0, dev, ref>>

\* a direct call of PAConvectionApply / PAConvectionApplyT
CallApply(i) ==
  /\ status = "ok"
  /\ dev = Idle
  /\ Calls(i) = 0
  /\ LET m == DofToQuad(env)
     IN  \E r \in {PAConvectionApply(env.dim, env.D, env.Q, env.NE,
                                     m.B, m.G, m.Bt, m.Gt,
                                     Coefficients(env), x[i], y[i])} :
           /\ y' = [y EXCEPT ![i] = r.y]
           /\ status' = r.status
           /\ calls' = IF r.status = "ok"
                       THEN [calls EXCEPT ![i].F = @ + 1] ELSE calls
  /\ kernel' = ApplyKernel(env.dim, env.D, env.Q)
  /\ UNCHANGED <<hostVars, uninit, env, dim, nq, ne, dofs1D, quad1D, maps, pa_data,
                 opWrites, assembled, x, y0, dev, ref>>

CallApplyT(i) ==
  /\ status = "ok"
  /\ dev = Idle
  /\ Calls(i) = 0
  /\ LET m == DofToQuad(env)
     IN  \E r \in {PAConvectionApplyT(env.dim, env.D, env.Q, env.NE,
                                      m.B, m.G, m.Bt, m.Gt,
                                      Coefficients(env), x[i], y[i])} :
           /\ y' = [y EXCEPT ![i] = r.y]
           /\ status' = r.status
           /\ calls' = IF r.status = "ok"
                       THEN [calls EXCEPT ![i].T = @ + 1] ELSE calls
  /\ kernel' = ApplyTKernel(env.dim, env.D, env.Q)
  /\ UNCHANGED <<hostVars, uninit, env, dim, nq, ne, dofs1D, quad1D, maps, pa_data,
                 opWrites, assembled, x, y0, dev, ref>>

InitKernel ==
  \E E \in KernelEnvs :
     Constructed(E, <<InputVector(E, 1)>>, <<InitialOutput(E, 1)>>)

NextKernel ==
  \/ CallKernel(1)
  \/ CallApply(1)
  \/ CallApplyT(1)

SpecKernel == InitKernel /\ [][NextKernel]_vars

\* ------------------------------------------------------------------------
\* SpecAlgebra: one integrator applied to three vectors p, r and a*p + b*r,
\* each into a zero output, once: forward or transposed
\* ------------------------------------------------------------------------

\* the scalars a, b of input data set seed
ScalarA(seed) == seed + 2
ScalarB(seed) == -(seed + 3)

Combination(a, p, b, r) == [k \in DOMAIN p |-> a * p[k] + b * r[k]]

AlgebraEnvs ==
  {Env(dm, s[1], s[2], NE, seed, TRUE) :
     dm \in {2, 3}, s \in SmallShapes, NE \in 1 .. MaxNE, seed \in Seeds}

InitAlgebra ==
  \E E \in AlgebraEnvs :
     LET p == InputVector(E, 1)
         r == InputVector(E, 2)
         z == Zeros(VSize(E))
     IN  Constructed(E,
           <<p, r, Combination(ScalarA(E.seed), p, ScalarB(E.seed), r)>>,
           <<z, z, z>>)

\* the combination is multiplied once both of its parts have been, and the
\* same way as they were
OnceForward(i) ==
  /\ Calls(i) = 0
  /\ i = 3 => calls[1].F = 1 /\ calls[2].F = 1
  /\ AddMultPA(i)

OnceTranspose(i) ==
  /\ Calls(i) = 0
  /\ i = 3 => calls[1].T = 1 /\ calls[2].T = 1
  /\ AddMultTransposePA(i)

NextAlgebra ==
  \/ AssemblePA
  \/ \E i \in DOMAIN x : OnceForward(i)
  \/ \E i \in DOMAIN x : OnceTranspose(i)

SpecAlgebra == InitAlgebra /\ [][NextAlgebra]_vars

\* ------------------------------------------------------------------------
\* SpecThreads: a shared-memory kernel on the device.  forall_2D_batch(N, X,
\* Y, BZ) launches ceil(N / BZ) blocks of X * Y * BZ threads, thread
\* (x, y, z) of block b running the body for element b * BZ + z if that is
\* below N; forall_3D(N, X, Y, Z) launches N blocks of X * Y * Z threads,
\* block b running the body for element b.  The threads of a block share
\* the MFEM_SHARED arrays and meet at every MFEM_SYNC_THREAD.  Blocks share
\* nothing but y_, of which each writes the cells of its own elements: they
\* are run one at a time, in any order.
\* ------------------------------------------------------------------------

Is2D(k) == k.fn \in Kernels2D

\* the sizes the kernel instantiation k works with
KernelD1D(k, d1d) == IF k.T_D1D # 0 THEN k.T_D1D ELSE d1d
KernelQ1D(k, q1d) == IF k.T_Q1D # 0 THEN k.T_Q1D ELSE q1d
KernelNBZ(k)      == IF k.T_NBZ # 0 THEN k.T_NBZ ELSE 1

\* blockDim of the launch
BlockDim(k) ==
  LET Q1D == KernelQ1D(k, 0)
  IN  [x |-> Q1D, y |-> Q1D, z |-> IF Is2D(k) THEN KernelNBZ(k) ELSE Q1D]

\* the blocks of the grid
Blocks(k, NE) ==
  IF Is2D(k) THEN Range((NE + KernelNBZ(k) - 1) \div KernelNBZ(k))
  ELSE Range(NE)

\* the element thread t of block b works on
Element(k, b, t) == IF Is2D(k) THEN b * KernelNBZ(k) + t.z ELSE b

\* the threads of block b that enter the body
Threads(k, b, NE) ==
  LET bd == BlockDim(k)
  IN  {t \in [x : Range(bd.x), y : Range(bd.y), z : Range(bd.z)] :
         Element(k, b, t) < NE}

\* the number of barrier-separated stages of the body of k
Stages(k) ==
  CASE k.fn = "SmemPAConvectionApply2D"  -> SmemApply2DStages
    [] k.fn = "SmemPAConvectionApplyT2D" -> SmemApplyT2DStages
    [] k.fn = "SmemPAConvectionApply3D"  -> SmemApply3DStages
    [] k.fn = "SmemPAConvectionApplyT3D" -> SmemApplyT3DStages

\* the MFEM_SHARED arrays of a block as it starts
Shared(k) ==
  LET D1D == KernelD1D(k, 0)
      Q1D == KernelQ1D(k, 0)
  IN  CASE k.fn = "SmemPAConvectionApply2D" ->
             SmemApply2DShared(D1D, Q1D, KernelNBZ(k))
        [] k.fn = "SmemPAConvectionApplyT2D" ->
             SmemApplyT2DShared(D1D, Q1D, KernelNBZ(k))
        [] k.fn = "SmemPAConvectionApply3D" ->
             SmemApply3DShared(D1D, Q1D)
        [] k.fn = "SmemPAConvectionApplyT3D" ->
             SmemApplyT3DShared(D1D, Q1D)

\* Stage without the MFEM_SYNC_THREAD between stages 2 and 3 of
\* SmemPAConvectionApply3D: a thread goes on to stage 3 at once
StageWithoutBarrier(k, s, t, b, a, st) ==
  LET D1D == KernelD1D(k, 0)
      Q1D == KernelQ1D(k, 0)
      bd  == BlockDim(k)
      e   == Element(k, b, t)
  IN  CASE k.fn = "SmemPAConvectionApply2D" ->
             SmemApply2DStage(s, t, bd, e, D1D, Q1D, a, st)
        [] k.fn = "SmemPAConvectionApplyT2D" ->
             SmemApplyT2DStage(s, t, bd, e, D1D, Q1D, a, st)
        [] k.fn = "SmemPAConvectionApply3D" ->
             IF s = 2
             THEN SmemApply3DStage(3, t, bd, e, D1D, Q1D, a,
                    SmemApply3DStage(2, t, bd, e, D1D, Q1D, a, st))
             ELSE IF s = 3 THEN st
             ELSE SmemApply3DStage(s, t, bd, e, D1D, Q1D, a, st)
        [] k.fn = "SmemPAConvectionApplyT3D" ->
             SmemApplyT3DStage(s, t, bd, e, D1D, Q1D, a, st)

\* stage s of the body of k run by thread t of block b
Stage(k, s, t, b, a, st) ==
  LET D1D == KernelD1D(k, 0)
      Q1D == KernelQ1D(k, 0)
      bd  == BlockDim(k)
      e   == Element(k, b, t)
  IN  CASE k.fn = "SmemPAConvectionApply2D" ->
             SmemApply2DStage(s, t, bd, e, D1D, Q1D, a, st)
        [] k.fn = "SmemPAConvectionApplyT2D" ->
             SmemApplyT2DStage(s, t, bd, e, D1D, Q1D, a, st)
        [] k.fn = "SmemPAConvectionApply3D" ->
             SmemApply3DStage(s, t, bd, e, D1D, Q1D, a, st)
        [] k.fn = "SmemPAConvectionApplyT3D" ->
             SmemApplyT3DStage(s, t, bd, e, D1D, Q1D, a, st)

\* MFEM_SYNC_THREAD letting every thread through at once
NoSyncThread(tpc, t) == TRUE

\* MFEM_SYNC_THREAD: thread t, with tpc[t] stages behind it, goes on only
\* when no thread of the block has fewer
MFEM_SYNC_THREAD(tpc, t) == \A u \in DOMAIN tpc : tpc[u] >= tpc[t]

\* the generic kernel that the dispatch would fall back to instead of k
GenericOf(k) ==
  CASE k.fn = "SmemPAConvectionApply2D"  -> Kernel("PAConvectionApply2D", 0, 0, 0)
    [] k.fn = "SmemPAConvectionApplyT2D" -> Kernel("PAConvectionApplyT2D", 0, 0, 0)
    [] k.fn = "SmemPAConvectionApply3D"  -> Kernel("PAConvectionApply3D", 0, 0, 0)
    [] k.fn = "SmemPAConvectionApplyT3D" -> Kernel("PAConvectionApplyT3D", 0, 0, 0)
    [] OTHER -> k

\* the launch of kernel k for slot i, after its MFEM_VERIFY lines
Launch(k, i, transpose) ==
  /\ status = "ok"
  /\ assembled
  /\ dev = Idle
  /\ Calls(i) < MaxCalls
  /\ k.fn \notin GenericKernels \cup {"none", "not called"}
  /\ KernelD1D(k, 0) <= MAX_D1D
  /\ KernelQ1D(k, 0) <= MAX_Q1D
  /\ dev' = [run |-> TRUE, k |-> k, slot |-> i, transpose |-> transpose,
             pend |-> Blocks(k, ne), cur |-> -1, tpc |-> <<>>, sm |-> <<>>]
  /\ kernel' = k
  /\ ref' = Call(GenericOf(k), dofs1D, quad1D, ne,
                 maps.B, maps.G, maps.Bt, maps.Gt, pa_data, x[i], y[i]).y
  /\ UNCHANGED <<hostVars, uninit, env, dim, nq, ne, dofs1D, quad1D, maps, pa_data,
                 opWrites, assembled, x, y, y0, calls, status>>

\* AddMultPA / AddMultTransposePA with the device backend, up to the launch
DeviceAddMultPA(i) == Launch(ApplyKernel(dim, dofs1D, quad1D), i, FALSE)

DeviceAddMultTransposePA(i) ==
  Launch(ApplyTKernel(dim, dofs1D, quad1D), i, TRUE)

BlockStart(b) ==
  /\ dev.run
  /\ dev.cur = -1
  /\ b \in dev.pend
  /\ dev' = [dev EXCEPT !.cur = b,
                        !.tpc = [t \in Threads(dev.k, b, ne) |-> 0],
                        !.sm = Shared(dev.k)]
  /\ UNCHANGED <<hostVars, uninit, env, dim, nq, ne, dofs1D, quad1D, maps, pa_data,
                 opWrites, assembled, x, y, y0, calls, status, kernel, ref>>

\* thread t of the running block runs its next stage
ThreadStep(t) ==
  /\ dev.run
  /\ dev.cur # -1
  /\ t \in DOMAIN dev.tpc
  /\ dev.tpc[t] < Stages(dev.k)
  /\ MFEM_SYNC_THREAD(dev.tpc, t)
  /\ LET a == [ne |-> ne, b |-> maps.B, g |-> maps.G, bt |-> maps.Bt,
               gt |-> maps.Gt, op_ |-> pa_data, x_ |-> x[dev.slot],
               d1d |-> 0, q1d |-> 0]
     IN  \E st \in {Stage(dev.k, dev.tpc[t], t, dev.cur, a,
                          [sm |-> dev.sm, y |-> y[dev.slot]])} :
           /\ dev' = [dev EXCEPT !.sm = st.sm, !.tpc[t] = @ + 1]
           /\ y' = [y EXCEPT ![dev.slot] = st.y]
  /\ UNCHANGED <<hostVars, uninit, env, dim, nq, ne, dofs1D, quad1D, maps, pa_data,
                 opWrites, assembled, x, y0, calls, status, kernel, ref>>

BlockEnd ==
  /\ dev.run
  /\ dev.cur # -1
  /\ \A t \in DOMAIN dev.tpc : dev.tpc[t] = Stages(dev.k)
  /\ dev' = [dev EXCEPT !.pend = @ \ {dev.cur}, !.cur = -1,
                        !.tpc = <<>>, !.sm = <<>>]
  /\ UNCHANGED <<hostVars, uninit, env, dim, nq, ne, dofs1D, quad1D, maps, pa_data,
                 opWrites, assembled, x, y, y0, calls, status, kernel, ref>>

\* the kernel returns once every block has run
KernelEnd ==
  /\ dev.run
  /\ dev.cur = -1
  /\ dev.pend = {}
  /\ dev' = Idle
  /\ calls' = IF dev.transpose THEN [calls EXCEPT ![dev.slot].T = @ + 1]
              ELSE [calls EXCEPT ![dev.slot].F = @ + 1]
  /\ UNCHANGED <<hostVars, uninit, env, dim, nq, ne, dofs1D, quad1D, maps, pa_data,
                 opWrites, assembled, x, y, y0, status, kernel, ref>>

\* table entries with few threads: (2, 2) in 2D with a batch of one or two
\* elements, (3, 3) in 2D and (2, 2) in 3D with one element
ThreadEnvs ==
  {Env(2, 2, 2, NE, 0, TRUE) : NE \in {1, 2}}
  \cup {Env(2, 3, 3, 1, 0, TRUE), Env(3, 2, 2, 1, 0, TRUE)}

InitThreads ==
  \E E \in ThreadEnvs :
     Constructed(E, <<InputVector(E, 1)>>, <<InitialOutput(E, 1)>>)

NextThreads ==
  \/ AssemblePA
  \/ (Calls(1) = 0 /\ DeviceAddMultPA(1))
  \/ (Calls(1) = 0 /\ DeviceAddMultTransposePA(1))
  \/ \E b \in dev.pend : BlockStart(b)
  \/ \E t \in DOMAIN dev.tpc : ThreadStep(t)
  \/ BlockEnd
  \/ KernelEnd

SpecThreads == InitThreads /\ [][NextThreads]_vars

\* ------------------------------------------------------------------------
\* SpecSetup: AssemblePA, called again whenever the caller has changed the
\* mesh data or the coefficient, and one product with the result
\* ------------------------------------------------------------------------

SetupShapes == {<<2, 2>>, <<2, 3>>}

SetupEnvs ==
  {Scenario(Env(dm, s[1], s[2], NE, 0, TRUE), sc) :
     dm \in {2, 3}, s \in SetupShapes, NE \in 1 .. MaxNE,
     sc \in {"any", "zero"}}
  \cup {Scenario(Env(2, s[1], s[2], NE, 0, TRUE), "affine") :
          s \in SetupShapes, NE \in 1 .. MaxNE}

InitSetup ==
  \E E \in SetupEnvs :
     Constructed(E, <<InputVector(E, 1)>>, <<InitialOutput(E, 1)>>)

NextSetup ==
  \/ AssemblePA
  \/ AssemblePAAgain
  \/ Calls(1) = 0 /\ AddMultPA(1)
  \/ Calls(1) = 0 /\ AddMultTransposePA(1)

SpecSetup == InitSetup /\ [][NextSetup]_vars

\* ------------------------------------------------------------------------
\* Properties
\* ------------------------------------------------------------------------

VAdd(u, v) == [k \in DOMAIN u |-> u[k] + v[k]]

VScale(c, u) == [k \in DOMAIN u |-> c * u[k]]

\* the table a gradient component k takes along an axis: G along axis k, B
\* along every other axis
Table(k, axis, B, G) == IF k = axis THEN G ELSE B

\* The forward operator written out, without sum factorization: the field
\* f(q,e) = sum_k op_k(q,e) * gradient_k(q,e) at the quadrature points, where
\* gradient_k contracts x with G along axis k and B along the others, and
\* the increment of dof d: sum_q (prod over axes of Bt) * f(q,e).
NaiveApply2D(D1D, Q1D, NE, B, G, Bt, op, xv) ==
  LET ND == D1D * D1D
      NQ == Q1D * Q1D
      \* dof n = (dx, dy), point q = (qx, qy): axis 0 fastest
      gradient(k, q, e) ==
        Sum(LAMBDA n :
              Table(k, 0, B, G)[(q % Q1D) + Q1D * (n % D1D)]
              * Table(k, 1, B, G)[(q \div Q1D) + Q1D * (n \div D1D)]
              * xv[n + ND * e], ND)
      f == Eager([q \in Range(NQ), e \in Range(NE) |->
             Sum(LAMBDA k : op[q + NQ * (k + 2 * e)] * gradient(k, q, e), 2)])
  IN  [i \in Range(ND * NE) |->
         LET n == i % ND
             e == i \div ND
         IN  Sum(LAMBDA q :
                   Bt[(n % D1D) + D1D * (q % Q1D)]
                   * Bt[(n \div D1D) + D1D * (q \div Q1D)]
                   * f[q, e], NQ)]

NaiveApply3D(D1D, Q1D, NE, B, G, Bt, op, xv) ==
  LET ND == D1D * D1D * D1D
      NQ == Q1D * Q1D * Q1D
      gradient(k, q, e) ==
        Sum(LAMBDA n :
              Table(k, 0, B, G)[(q % Q1D) + Q1D * (n % D1D)]
              * Table(k, 1, B, G)[((q \div Q1D) % Q1D)
                                  + Q1D * ((n \div D1D) % D1D)]
              * Table(k, 2, B, G)[(q \div (Q1D * Q1D))
                                  + Q1D * (n \div (D1D * D1D))]
              * xv[n + ND * e], ND)
      f == Eager([q \in Range(NQ), e \in Range(NE) |->
             Sum(LAMBDA k : op[q + NQ * (k + 3 * e)] * gradient(k, q, e), 3)])
  IN  [i \in Range(ND * NE) |->
         LET n == i % ND
             e == i \div ND
         IN  Sum(LAMBDA q :
                   Bt[(n % D1D) + D1D * (q % Q1D)]
                   * Bt[((n \div D1D) % D1D) + D1D * ((q \div Q1D) % Q1D)]
                   * Bt[(n \div (D1D * D1D)) + D1D * (q \div (Q1D * Q1D))]
                   * f[q, e], NQ)]

NaiveApply(E, op, xv) ==
  LET m == DofToQuad(E)
  IN  IF E.dim = 2
      THEN NaiveApply2D(E.D, E.Q, E.NE, m.B, m.G, m.Bt, op, xv)
      ELSE NaiveApply3D(E.D, E.Q, E.NE, m.B, m.G, m.Bt, op, xv)

\* C1 (SpecAlgebra).  Adjoint property, dim 2 and 3, tables with
\* Bt = transpose(B) and Gt = transpose(G): once p has been multiplied
\* forward into a zero output and r transposed into a zero output,
\* dot(Apply(p), r) = dot(p, ApplyTranspose(r)), exactly.
C1_Adjoint ==
  (calls[1] = [F |-> 1, T |-> 0] /\ calls[2] = [F |-> 0, T |-> 1])
    => Dot(y[1], x[2]) = Dot(x[1], y[2])

C1_Witness ==
  /\ calls[1] = [F |-> 1, T |-> 0]
  /\ calls[2] = [F |-> 0, T |-> 1]
  /\ dim = 3
  /\ y0[1] = Zeros(VSize(env)) /\ y0[2] = Zeros(VSize(env))
  /\ maps.Bt = Transpose(maps.B, quad1D, dofs1D)
  /\ Dot(y[1], x[2]) # 0

\* C2 (SpecKernel).  After one call of a generic forward kernel the output
\* is its previous contents plus the increments of the naive reference
\* NaiveApply, for every input of the bounded sizes, in 2D and in 3D.
C2_ForwardIsNaive ==
  (calls[1].F = 1 /\ kernel.fn \in {"PAConvectionApply2D",
                                   "PAConvectionApply3D"})
    => y[1] = VAdd(y0[1], NaiveApply(env, Coefficients(env), x[1]))

C2_Witness ==
  /\ calls[1].F = 1
  /\ kernel.fn = "PAConvectionApply3D"
  /\ env.D = 2 /\ env.Q = 3 /\ env.NE = 2
  /\ \A i \in DOMAIN y[1] : y[1][i] # y0[1][i]

\* C3 (Spec).  Accumulation: after nF forward and nT transpose calls with
\* the same input x, y = y0 + nF * RF(x) + nT * RT(x), where RF(x) and RT(x)
\* are what one call leaves in a zero output; this holds whichever kernel
\* variant the dispatch runs.
C3_Accumulates ==
  (Calls(1) > 0) =>
     LET z  == Zeros(Size(y[1]))
         RF == IF calls[1].F = 0 THEN z
               ELSE PAConvectionApply(dim, dofs1D, quad1D, ne, maps.B, maps.G,
                                      maps.Bt, maps.Gt, pa_data, x[1], z).y
         RT == IF calls[1].T = 0 THEN z
               ELSE PAConvectionApplyT(dim, dofs1D, quad1D, ne, maps.B,
                                       maps.G, maps.Bt, maps.Gt, pa_data,
                                       x[1], z).y
     IN  y[1] = VAdd(y0[1], VAdd(VScale(calls[1].F, RF),
                                 VScale(calls[1].T, RT)))

C3_Witness ==
  /\ calls[1] = [F |-> 2, T |-> 0]
  /\ kernel.fn = "SmemPAConvectionApply3D"
  /\ y0[1] # Zeros(Size(y[1]))
  /\ y[1] # y0[1]

\* C4 (SpecAlgebra).  Linearity: with each vector multiplied into a zero
\* output, Apply(a*p + b*r) = a*Apply(p) + b*Apply(r), and the same for
\* ApplyTranspose.
C4_Linear ==
  /\ (\A i \in 1 .. 3 : calls[i] = [F |-> 1, T |-> 0])
       => y[3] = VAdd(VScale(ScalarA(env.seed), y[1]),
                      VScale(ScalarB(env.seed), y[2]))
  /\ (\A i \in 1 .. 3 : calls[i] = [F |-> 0, T |-> 1])
       => y[3] = VAdd(VScale(ScalarA(env.seed), y[1]),
                      VScale(ScalarB(env.seed), y[2]))

C4_Witness ==
  /\ \A i \in 1 .. 3 : calls[i] = [F |-> 1, T |-> 0]
  /\ x[3] = VAdd(VScale(ScalarA(env.seed), x[1]),
                 VScale(ScalarB(env.seed), x[2]))
  /\ y[3] # Zeros(VSize(env))
  /\ y[1] # y[2]

\* C5 (SpecThreads).  A shared-memory kernel of the dispatch tables, run by
\* the threads of its blocks in any order that respects the barriers,
\* leaves the y of the generic kernel called with the same sizes, tables,
\* coefficient buffer, x and initial y (ref): at any moment every cell of y
\* holds its initial or its final value, and once the kernel has returned
\* y = ref (forward and transpose).
C5_SameAsGeneric ==
  /\ (dev.run => \A i \in DOMAIN ref : y[1][i] \in {y0[1][i], ref[i]})
  /\ (Calls(1) = 1 => y[1] = ref)

C5_Witness ==
  /\ calls[1].T = 1
  /\ kernel = Kernel("SmemPAConvectionApplyT2D", 2, 2, 8)
  /\ ne = 2
  /\ y[1] = ref
  /\ \A i \in DOMAIN ref : ref[i] # y0[1][i]

\* C6 (Spec).  A shared-memory kernel with template sizes <d, q> is the
\* kernel of a call only when the runtime D = d and Q = q.
C6_SpecializedOnlyForItsSizes ==
  (kernel.fn \notin GenericKernels \cup {"none", "not called"})
    => (kernel.T_D1D = dofs1D /\ kernel.T_Q1D = quad1D)

\* C7 (Spec).  For dim in {2,3}, with dofs1D > MAX_D1D or quad1D > MAX_Q1D no
\* Apply or ApplyTranspose call completes and y stays as it was.
C7_SizeLimitsFatal ==
  (assembled /\ dim \in {2, 3} /\ (dofs1D > MAX_D1D \/ quad1D > MAX_Q1D))
    => (Calls(1) = 0 /\ y = y0)

\* C8 (Spec).  Setup with a dimension other than 1 assigns every cell of the
\* operator coefficient buffer.
C8_SetupWritesAll ==
  (assembled /\ dim # 1) => \A i \in DOMAIN opWrites : opWrites[i] >= 1

\* C9 (Spec).  With dim = 1 PAConvectionSetup ends the run in a fatal error
\* before any Setup kernel runs: no cell of the coefficient buffer is
\* assigned, and the buffer holds what it held before the call.
C9_DimOneRejected ==
  (assembled /\ dim = 1)
    => /\ status = "abort"
       /\ \A i \in DOMAIN opWrites : opWrites[i] = 0
       /\ pa_data = Uninit(Size(pa_data))

C9_Witness ==
  /\ assembled
  /\ dim = 1
  /\ status = "abort"
  /\ Size(pa_data) = 2 * MaxNE

\* C10 (SpecKernel).  PAConvectionApply and PAConvectionApplyT called with a
\* dimension outside {2,3} (0, 1 and 4 here) end in a fatal error: no kernel
\* is selected, no call completes, and y holds what it held before.
C10_UnknownKernelFatal ==
  (env.dim \notin {2, 3}) =>
     /\ Calls(1) = 0
     /\ y = y0
     /\ kernel # NotCalled => (status = "abort" /\ kernel = NoKernel)

C10_Witness ==
  /\ env.dim = 4
  /\ kernel = NoKernel
  /\ status = "abort"
  /\ y = y0

\* C11 (Spec).  Apply before Setup is fatal: a call of AddMultPA or
\* AddMultTransposePA on an integrator AssemblePA was never called on ends
\* in MFEM_ABORT (a diagnostic), it neither faults nor returns.
C11_ApplyBeforeSetupFatal ==
  (~assembled /\ kernel # NotCalled) => status = "abort"

\* --- what AssemblePA has to leave in pa_data, from the caller's data -------

\* entry (row r, column c) of the Jacobian of E at point q of element e
JAt(E, q, r, c, e) ==
  Jacobians(E)[q + GetNPoints(E) * (r + E.dim * (c + E.dim * e))]

\* component c of the velocity of E at point q of element e
VAt(E, c, q, e) ==
  LET v == Velocity(E)
  IN  IF Size(v) = E.dim THEN v[c]
      ELSE v[c + E.dim * (q + GetNPoints(E) * e)]

\* wx_c = alpha * W(q) * v_c
WxAt(E, c, q, e) == Alpha(E) * GetWeights(E)[q] * VAt(E, c, q, e)

\* op(q, c, e) of a coefficient buffer of E
OpAt(op, E, q, c, e) == op[q + GetNPoints(E) * (c + E.dim * e)]

\* the points (q, e) of E
Points(E) == Range(GetNPoints(E)) \X Range(E.NE)

\* entry (row r, column c) of adj(J) for a 3x3 J: the cofactor of J(c, r)
Adj3(E, q, e, r, c) ==
  LET r1 == (r + 1) % 3
      r2 == (r + 2) % 3
      c1 == (c + 1) % 3
      c2 == (c + 2) % 3
  IN  JAt(E, q, c1, r1, e) * JAt(E, q, c2, r2, e)
      - JAt(E, q, c1, r2, e) * JAt(E, q, c2, r1, e)

Det2(E, q, e) ==
  JAt(E, q, 0, 0, e) * JAt(E, q, 1, 1, e)
  - JAt(E, q, 0, 1, e) * JAt(E, q, 1, 0, e)

Det3(E, q, e) ==
  JAt(E, q, 0, 0, e) * (JAt(E, q, 1, 1, e) * JAt(E, q, 2, 2, e)
                        - JAt(E, q, 1, 2, e) * JAt(E, q, 2, 1, e))
  - JAt(E, q, 0, 1, e) * (JAt(E, q, 1, 0, e) * JAt(E, q, 2, 2, e)
                          - JAt(E, q, 1, 2, e) * JAt(E, q, 2, 0, e))
  + JAt(E, q, 0, 2, e) * (JAt(E, q, 1, 0, e) * JAt(E, q, 2, 1, e)
                          - JAt(E, q, 1, 1, e) * JAt(E, q, 2, 0, e))

Det(E, q, e) == IF E.dim = 2 THEN Det2(E, q, e) ELSE Det3(E, q, e)

\* AssemblePA has run its kernel on the caller's data env
SetupDone(d) == assembled /\ status = "ok" /\ dim = d /\ env.dim = d

\* C12 (SpecSetup).  2D Setup: op(q,0,e) = wx*J22 - wy*J12 and
\* op(q,1,e) = -wx*J21 + wy*J11 at every point of every element, with
\* wx = alpha*W(q)*v0, wy = alpha*W(q)*v1 and v the one constant vector when
\* the velocity has 2 entries, the sample at (q,e) otherwise.
C12_Setup2D ==
  SetupDone(2) =>
    \A p \in Points(env) :
       LET q == p[1]
           e == p[2]
           wx == WxAt(env, 0, q, e)
           wy == WxAt(env, 1, q, e)
       IN  /\ OpAt(pa_data, env, q, 0, e)
                = wx * JAt(env, q, 1, 1, e) - wy * JAt(env, q, 0, 1, e)
           /\ OpAt(pa_data, env, q, 1, e)
                = (-wx) * JAt(env, q, 1, 0, e) + wy * JAt(env, q, 0, 0, e)

C12_Witness ==
  /\ SetupDone(2)
  /\ ~env.const_v
  /\ env.NE = 2
  /\ env.scenario = "any"
  /\ \E p \in Points(env) :
        /\ JAt(env, p[1], 0, 1, p[2]) # JAt(env, p[1], 1, 0, p[2])
        /\ OpAt(pa_data, env, p[1], 0, p[2]) # 0
        /\ OpAt(pa_data, env, p[1], 1, p[2]) # 0

\* C13 as stated (SpecSetup).  3D Setup: y_i = sum_j wx_j * A_ji, A_ji the
\* row-j, column-i entry of adj(J).
C13_Setup3DByColumns ==
  SetupDone(3) =>
    \A p \in Points(env), i \in Range(3) :
       OpAt(pa_data, env, p[1], i, p[2])
         = Sum(LAMBDA j : WxAt(env, j, p[1], p[2])
                          * Adj3(env, p[1], p[2], j, i), 3)

\* C13 amended (SpecSetup).  3D Setup: y_i = sum_j A_ij * wx_j, A_ij the
\* row-i, column-j entry of adj(J): the product adj(J) . wx.
C13_Setup3DByRows ==
  SetupDone(3) =>
    \A p \in Points(env), i \in Range(3) :
       OpAt(pa_data, env, p[1], i, p[2])
         = Sum(LAMBDA j : Adj3(env, p[1], p[2], i, j)
                          * WxAt(env, j, p[1], p[2]), 3)

C13_Witness ==
  /\ SetupDone(3)
  /\ env.scenario = "any"
  /\ \E p \in Points(env) :
        /\ Adj3(env, p[1], p[2], 0, 1) # Adj3(env, p[1], p[2], 1, 0)
        /\ \A i \in Range(3) : OpAt(pa_data, env, p[1], i, p[2]) # 0

\* C14 (SpecSetup).  The coefficient is adj(J) applied to alpha*W*v:
\* J * op = det(J) * alpha * W(q) * v at every point, in 2D and 3D, for
\* singular Jacobians too.
C14_JTimesOp ==
  (SetupDone(2) \/ SetupDone(3)) =>
    \A p \in Points(env), i \in Range(dim) :
       Sum(LAMBDA k : JAt(env, p[1], i, k, p[2])
                      * OpAt(pa_data, env, p[1], k, p[2]), dim)
         = Det(env, p[1], p[2]) * WxAt(env, i, p[1], p[2])

C14_Witness ==
  /\ SetupDone(3)
  /\ env.scenario = "any"
  /\ \E p \in Points(env) :
        /\ Det(env, p[1], p[2]) = 0
        /\ \E i \in Range(3) : OpAt(pa_data, env, p[1], i, p[2]) # 0
  /\ \E p \in Points(env) :
        /\ Det(env, p[1], p[2]) # 0
        /\ \E i \in Range(3) : WxAt(env, i, p[1], p[2]) # 0

\* C15 (SpecSetup).  Zero velocity, in either layout: Setup leaves the
\* coefficient buffer all zero whatever the Jacobians, the weights and
\* alpha, and a product with it, forward or transposed, leaves y as it was.
C15_ZeroVelocity ==
  (assembled /\ dim \in {2, 3} /\ env.scenario = "zero") =>
     /\ \A c \in DOMAIN Velocity(env) : Velocity(env)[c] = 0
     /\ pa_data = Zeros(dim * nq * ne)
     /\ status = "ok"
     /\ y = y0

C15_Witness ==
  /\ assembled
  /\ dim = 3
  /\ env.scenario = "zero"
  /\ ~env.const_v
  /\ calls[1] = [F |-> 0, T |-> 1]
  /\ \E i \in DOMAIN x[1] : x[1][i] # 0
  /\ \E i \in DOMAIN y[1] : y[1][i] # 0
  /\ \E i \in DOMAIN Jacobians(env) : Jacobians(env)[i] # 0

\* C16 (SpecSetup).  Affine map: with identity Jacobians, the constant
\* velocity (1,0) and alpha = 1, 2D Setup leaves op(q,.,e) = [W(q), 0] at
\* every point, and with every row of G summing to zero a forward product
\* of the constant-one vector adds zero to every entry of y, whatever B is.
C16_AffineMap ==
  (/\ SetupDone(2)
   /\ \A p \in Points(env), r \in Range(2), c \in Range(2) :
         JAt(env, p[1], r, c, p[2]) = (IF r = c THEN 1 ELSE 0)
   /\ Size(Velocity(env)) = 2
   /\ Velocity(env)[0] = 1 /\ Velocity(env)[1] = 0
   /\ Alpha(env) = 1
   /\ \A q \in Range(quad1D) :
         Sum(LAMBDA d : maps.G[q + quad1D * d], dofs1D) = 0
   /\ \A i \in DOMAIN x[1] : x[1][i] = 1
   /\ calls[1].T = 0)
  =>
   /\ \A p \in Points(env) :
         /\ OpAt(pa_data, env, p[1], 0, p[2]) = GetWeights(env)[p[1]]
         /\ OpAt(pa_data, env, p[1], 1, p[2]) = 0
   /\ y = y0

C16_Witness ==
  /\ SetupDone(2)
  /\ env.scenario = "affine"
  /\ env.const_v
  /\ env.D = 2 /\ env.Q = 3
  /\ calls[1] = [F |-> 1, T |-> 0]
  /\ \E q \in Range(nq) : GetWeights(env)[q] # 0
  /\ \E i \in DOMAIN maps.G : maps.G[i] # 0
  /\ \E q \in Range(quad1D) :
        Sum(LAMBDA d : maps.B[q + quad1D * d], dofs1D) # 0
  /\ y = y0

\* the kernel of the last call is a forward / a transpose one
ForwardKernel ==
  kernel.fn \notin TransposeKernels \cup {"none", "not called"}

TransposeKernel == kernel.fn \in TransposeKernels

C19_ApplyFrame ==
  [][(calls' # calls \/ kernel' # kernel \/ y' # y) =>
        UNCHANGED <<pa_data, opWrites, x, maps>>]_vars

C19_Witness ==
  /\ calls[1] = [F |-> 0, T |-> 1]
  /\ kernel.fn = "SmemPAConvectionApplyT3D"
  /\ y[1] # y0[1]
  /\ x[1] = InputVector(env, 1)
  /\ maps = DofToQuad(env)
  /\ \A i \in DOMAIN opWrites : opWrites[i] = 1
  /\ \E i \in DOMAIN pa_data : pa_data[i] # 0

\* what a Setup on the caller's data E leaves in a buffer that held junk
SetupOf(E, junk) ==
  LET size == E.dim * GetNPoints(E) * E.NE
  IN  PAConvectionSetup(E.dim, GetNPoints(E), E.NE, GetWeights(E),
                        Jacobians(E), Velocity(E), Alpha(E),
                        [v |-> [i \in Range(size) |-> junk],
                         n |-> Zeros(size)]).op.v

\* C18 (SpecSetup).  No accumulation across Setup calls: in 2D and 3D a
\* Setup call assigns every (point, component, element) cell of the buffer
\* exactly once, so after any sequence of Setup calls the buffer holds the
\* coefficients of the last call's inputs, whatever it held before.
C18_SetupOverwrites ==
  (SetupDone(2) \/ SetupDone(3)) =>
     /\ DOMAIN opWrites = Range(dim * nq * ne)
     /\ \A i \in DOMAIN opWrites : opWrites[i] = 1
     /\ pa_data = SetupOf(env, 0)
     /\ pa_data = SetupOf(env, uninit)

\* the caller has changed its data since construction (the input vector
\* still is the one of the first data set) and Setup has run again
C18_Witness ==
  /\ SetupDone(3)
  /\ env.scenario = "any"
  /\ env.NE = 2
  /\ env.seed = 1
  /\ ~env.const_v
  /\ x[1] = InputVector([env EXCEPT !.seed = 0], 1)
  /\ x[1] # InputVector(env, 1)
  /\ pa_data # SetupOf([env EXCEPT !.seed = 0, !.const_v = TRUE], 0)
  /\ \A i \in DOMAIN opWrites : opWrites[i] = 1

\* ------------------------------------------------------------------------
\* The element tasks of one call, run in any order and interleaved.
\* forall / forall_2D_batch / forall_3D hand the body one element index e
\* per task; a backend may run the tasks in any order and side by side.  A
\* task of a shared-memory kernel advances by one barrier-separated stage per
\* step with its own MFEM_SHARED arrays, a task of a generic kernel is one
\* step.  Between two steps of one task any step of another task may run.
\* ------------------------------------------------------------------------

\* the read-only arguments of the call of kernel k, as Call builds them
CallArgs(k) ==
  LET g == k.fn \in GenericKernels
  IN  [ne |-> ne, b |-> maps.B, g |-> maps.G, bt |-> maps.Bt,
       gt |-> maps.Gt, op_ |-> pa_data, x_ |-> <<>>,
       d1d |-> IF g THEN dofs1D ELSE 0, q1d |-> IF g THEN quad1D ELSE 0]

\* the number of steps of one element task of k
ElementStages(k) == IF k.fn \in GenericKernels THEN 1 ELSE Stages(k)

\* the task-local arrays of an element task of k as it starts
ElementShared(k) == IF k.fn \in GenericKernels THEN <<>> ELSE Shared(k)

\* KernelStage with the element index of the task dropped: every task works
\* on element 0
KernelStageElementZero(k, s, e, a, st) ==
  LET D1D == KernelD1D(k, a.d1d)
      Q1D == KernelQ1D(k, a.q1d)
  IN  CASE k.fn = "PAConvectionApply2D" ->
             [sm |-> st.sm, y |-> Apply2DElement(0, D1D, Q1D, a, st.y)]
        [] k.fn = "PAConvectionApplyT2D" ->
             [sm |-> st.sm, y |-> ApplyT2DElement(0, D1D, Q1D, a, st.y)]
        [] k.fn = "PAConvectionApply3D" ->
             [sm |-> st.sm, y |-> Apply3DElement(0, D1D, Q1D, a, st.y)]
        [] k.fn = "PAConvectionApplyT3D" ->
             [sm |-> st.sm, y |-> ApplyT3DElement(0, D1D, Q1D, a, st.y)]
        [] k.fn = "SmemPAConvectionApply2D" ->
             SmemApply2DStage(s, HostThread, HostBlock, 0, D1D, Q1D, a, st)
        [] k.fn = "SmemPAConvectionApplyT2D" ->
             SmemApplyT2DStage(s, HostThread, HostBlock, 0, D1D, Q1D, a, st)
        [] k.fn = "SmemPAConvectionApply3D" ->
             SmemApply3DStage(s, HostThread, HostBlock, 0, D1D, Q1D, a, st)
        [] k.fn = "SmemPAConvectionApplyT3D" ->
             SmemApplyT3DStage(s, HostThread, HostBlock, 0, D1D, Q1D, a, st)

\* step s of the task of element e in kernel k: the forall body of k called
\* with e, from the state st = [sm, y] of the task's arrays and the output
KernelStage(k, s, e, a, st) ==
  LET D1D == KernelD1D(k, a.d1d)
      Q1D == KernelQ1D(k, a.q1d)
  IN  CASE k.fn = "PAConvectionApply2D" ->
             [sm |-> st.sm, y |-> Apply2DElement(e, D1D, Q1D, a, st.y)]
        [] k.fn = "PAConvectionApplyT2D" ->
             [sm |-> st.sm, y |-> ApplyT2DElement(e, D1D, Q1D, a, st.y)]
        [] k.fn = "PAConvectionApply3D" ->
             [sm |-> st.sm, y |-> Apply3DElement(e, D1D, Q1D, a, st.y)]
        [] k.fn = "PAConvectionApplyT3D" ->
             [sm |-> st.sm, y |-> ApplyT3DElement(e, D1D, Q1D, a, st.y)]
        [] k.fn = "SmemPAConvectionApply2D" ->
             SmemApply2DStage(s, HostThread, HostBlock, e, D1D, Q1D, a, st)
        [] k.fn = "SmemPAConvectionApplyT2D" ->
             SmemApplyT2DStage(s, HostThread, HostBlock, e, D1D, Q1D, a, st)
        [] k.fn = "SmemPAConvectionApply3D" ->
             SmemApply3DStage(s, HostThread, HostBlock, e, D1D, Q1D, a, st)
        [] k.fn = "SmemPAConvectionApplyT3D" ->
             SmemApplyT3DStage(s, HostThread, HostBlock, e, D1D, Q1D, a, st)

\* the whole task of element e, run alone from the output yy
ElementTask(k, e, a, yy) ==
  RunStages(ElementStages(k),
            LAMBDA s, st : KernelStage(k, s, e, a, st),
            [sm |-> ElementShared(k), y |-> yy]).y

\* AddMultPA / AddMultTransposePA up to the forall of the kernel: the NE
\* element tasks are handed out, none has started
LaunchElements(k, i, transpose) ==
  /\ status = "ok"
  /\ assembled
  /\ dev = Idle
  /\ Calls(i) < MaxCalls
  /\ k.fn \notin {"none", "not called"}
  /\ KernelD1D(k, dofs1D) <= MAX_D1D
  /\ KernelQ1D(k, quad1D) <= MAX_Q1D
  /\ dev' = [run |-> TRUE, k |-> k, slot |-> i, transpose |-> transpose,
             pend |-> Range(ne), cur |-> -1,
             tpc |-> [e \in Range(ne) |-> 0],
             sm |-> [e \in Range(ne) |-> ElementShared(k)],
             y0 |-> y[i]]
  /\ kernel' = k
  /\ ref' = Call(k, dofs1D, quad1D, ne,
                 maps.B, maps.G, maps.Bt, maps.Gt, pa_data, x[i], y[i]).y
  /\ UNCHANGED <<hostVars, uninit, env, dim, nq, ne, dofs1D, quad1D, maps, pa_data,
                 opWrites, assembled, x, y, y0, calls, status>>

ElementsAddMultPA(i) ==
  LaunchElements(ApplyKernel(dim, dofs1D, quad1D), i, FALSE)

ElementsAddMultTransposePA(i) ==
  LaunchElements(ApplyTKernel(dim, dofs1D, quad1D), i, TRUE)

\* the task of element e runs its next step
ElementStep(e) ==
  /\ dev.run
  /\ e \in dev.pend
  /\ LET a == [CallArgs(dev.k) EXCEPT !.x_ = x[dev.slot]]
     IN  \E st \in {KernelStage(dev.k, dev.tpc[e], e, a,
                                [sm |-> dev.sm[e], y |-> y[dev.slot]])} :
           /\ dev' = [dev EXCEPT
                        !.sm[e] = st.sm,
                        !.tpc[e] = @ + 1,
                        !.pend = IF dev.tpc[e] + 1 = ElementStages(dev.k)
                                 THEN @ \ {e} ELSE @]
           /\ y' = [y EXCEPT ![dev.slot] = st.y]
  /\ UNCHANGED <<hostVars, uninit, env, dim, nq, ne, dofs1D, quad1D, maps, pa_data,
                 opWrites, assembled, x, y0, calls, status, kernel, ref>>

\* the data a mesh of NE elements is filled with
ElementSeed(NE) == NE % (MaxSeed + 1)

\* meshes of one to MaxNE elements, every kernel of the small shapes
ElementEnvs ==
  {Env(dm, s[1], s[2], NE, ElementSeed(NE),
       ConstantVelocity(NE, ElementSeed(NE))) :
     dm \in {2, 3}, s \in SmallShapes, NE \in 1 .. MaxNE}

InitElements ==
  \E E \in ElementEnvs :
     Constructed(E, <<InputVector(E, 1)>>, <<InitialOutput(E, 1)>>)

NextElements ==
  \/ AssemblePA
  \/ (Calls(1) = 0 /\ ElementsAddMultPA(1))
  \/ (Calls(1) = 0 /\ ElementsAddMultTransposePA(1))
  \/ \E e \in dev.pend : ElementStep(e)
  \/ KernelEnd

SpecElements == InitElements /\ [][NextElements]_vars

\* the element that owns cell i of x or y, and of the coefficient buffer
DofElement(i) == i \div Pow(dofs1D, dim)
OpElement(i)  == i \div (dim * Pow(quad1D, dim))

\* buf with 1 added to every cell that element e does not own
Foreign(buf, e, Owner(_)) ==
  [i \in DOMAIN buf |-> IF Owner(i) = e THEN buf[i] ELSE buf[i] + 1]

\* C20: while the element tasks of one Apply / ApplyTranspose call run in
\* any order and interleaved, a cell of y holds the kernel's final value as
\* soon as the task of its element is through and the value it had before
\* the call until then, so a task writes only the block of its element, no
\* cell is written by two tasks and the final y is that of the in-order
\* kernel; and what the task of e adds depends only on block e of x, of the
\* coefficient buffer and of y.
C20_ElementIndependence ==
  dev.run =>
    LET k  == dev.k
        yy == y[dev.slot]
        a  == [CallArgs(k) EXCEPT !.x_ = x[dev.slot]]
    IN  /\ \A i \in DOMAIN yy :
             yy[i] = IF DofElement(i) \in dev.pend THEN dev.y0[i]
                     ELSE ref[i]
        /\ \A e \in Range(ne) :
             (\A u \in Range(ne) : dev.tpc[u] = 0) =>
               \E r \in {ElementTask(k, e, a, yy)} :
                 \E f \in {ElementTask(k, e,
                             [a EXCEPT
                                !.x_ = Foreign(@, e, DofElement),
                                !.op_ = Foreign(@, e, OpElement)],
                             Foreign(yy, e, DofElement))} :
                   \A i \in DOMAIN yy :
                     /\ DofElement(i) = e => f[i] = r[i]
                     /\ DofElement(i) # e => r[i] = yy[i]

\* two elements, the task of element 1 is through while the task of element
\* 0 is between two of its stages, and both have something to add
C20_Witness ==
  /\ dev.run
  /\ ne = 2
  /\ dev.pend = {0}
  /\ dev.tpc[0] > 0
  /\ \E i \in DOMAIN ref : DofElement(i) = 1 /\ ref[i] # dev.y0[i]
  /\ \E i \in DOMAIN ref : DofElement(i) = 0 /\ ref[i] # dev.y0[i]
  /\ y[dev.slot] # ref
  /\ y[dev.slot] # dev.y0

\* ------------------------------------------------------------------------
\* DenseSymmetricMatrix (linalg/symmat.hpp)
\* ------------------------------------------------------------------------

\* the variables of the ConvectionIntegrator and of its caller
integratorVars == <<uninit, env, dim, nq, ne, dofs1D, quad1D, maps, pa_data,
                    opWrites, assembled, x, y, y0, calls, status, kernel,
                    dev, ref>>

\* a run without a ConvectionIntegrator
NoIntegrator ==
  /\ uninit = 0 /\ env = NoHost
  /\ dim = 0 /\ nq = 0 /\ ne = 0 /\ dofs1D = 0 /\ quad1D = 0
  /\ maps = NoMaps /\ pa_data = <<>> /\ opWrites = <<>>
  /\ assembled = FALSE
  /\ x = <<>> /\ y = <<>> /\ y0 = <<>> /\ calls = <<>>
  /\ status = "ok" /\ kernel = NotCalled /\ dev = Idle /\ ref = <<>>

\* int division of C: the quotient is truncated towards zero
CDiv(m, n) == IF m >= 0 THEN m \div n ELSE -((-m) \div n)

\* the largest s for which s*(s+1) is an int
LargeSize == 46340

NULL == -1

\* Memory<real_t>: the host pointer, the capacity and the ownership flag
MemoryEmpty == [h_ptr |-> NULL, capacity |-> 0, owns |-> FALSE]

\* Memory::Wrap(ptr, size, own)
MemoryWrap(ptr, size, own) == [h_ptr |-> ptr, capacity |-> size, owns |-> own]

\* Memory::New(size) with the array the allocator hands out
MemoryNew(ptr, size) == [h_ptr |-> ptr, capacity |-> size, owns |-> TRUE]

\* Memory::OwnsHostPtr()
OwnsHostPtr(m) == m.owns

\* the arrays after Memory::Delete() on m: delete [] of the host pointer
\* when m owns it
MemoryDelete(m, hp) ==
  IF m.owns /\ m.h_ptr # NULL
  THEN [hp EXCEPT ![m.h_ptr].deletes = @ + 1]
  ELSE hp

\* DenseSymmetricMatrix::UseExternalData with the owning flag set
UseExternalDataOwning(d, s) ==
  [data |-> MemoryWrap(d, CDiv(s * (s + 1), 2), TRUE),
   height |-> s, width |-> s]

\* DenseSymmetricMatrix::UseExternalData(d, s): the matrix after the call
UseExternalData(d, s) ==
  [data |-> MemoryWrap(d, CDiv(s * (s + 1), 2), FALSE),
   height |-> s, width |-> s]

\* DenseSymmetricMatrix::OwnsData()
OwnsData(m) == OwnsHostPtr(m.data)

\* DenseSymmetricMatrix::GetStoredSize()
GetStoredSize(m) == CDiv(m.height * (m.height + 1), 2)

\* operator()(i, j) without the exchange of i and j
OffsetNotReversed(height, i, j) ==
  (i * height) - CDiv((i - 1) * i, 2) + j - i

\* DenseSymmetricMatrix::operator()(i, j): the index into data
Offset(height, i, j) ==
  IF i > j
  THEN (j * height) - CDiv((j - 1) * j, 2) + i - j
  ELSE (i * height) - CDiv((i - 1) * i, 2) + j - i

\* Height()*Width(), the entry count Read() ... HostReadWrite() ask for
AccessSize(m) == m.height * m.width

Accessors ==
  {"Read", "HostRead", "Write", "HostWrite", "ReadWrite", "HostReadWrite"}

\* the caller's arrays: number 1 holds the entries of a matrix of size
\* MaxSize, number 2 those of a matrix of size LargeSize; array 0 is the one
\* the allocator gives to DenseSymmetricMatrix(int s)
CallerArrays == {1, 2}

ArrayLength(d) ==
  IF d = 1 THEN CDiv(MaxSize * (MaxSize + 1), 2)
  ELSE CDiv(LargeSize * (LargeSize + 1), 2)

\* the sizes a caller uses with array d
Sizes(d) == IF d = 1 THEN 0 .. MaxSize ELSE {LargeSize}

\* the indices the caller visits: all of them up to MaxSize, the first and
\* last two of a larger matrix
Indices(n) == IF n <= MaxSize THEN Range(n) ELSE {0, 1, n - 2, n - 1}

NoAccess == [fn |-> "none"]

\* the arrays of a run: length, how often delete [] was applied to it and
\* whether it has been handed to the matrix as external data
Arrays(own) ==
  [d \in {0} \cup CallerArrays |->
     [len |-> IF d = 0 THEN own ELSE ArrayLength(d), deletes |-> 0,
      wrapped |-> FALSE]]

symVars == <<integratorVars, main>>

\* DenseSymmetricMatrix(): data = NULL, height = width = 0
DefaultConstructor ==
  /\ mat = [data |-> MemoryEmpty, height |-> 0, width |-> 0]
  /\ heap = Arrays(0)

\* DenseSymmetricMatrix(int s): a matrix that owns its s(s+1)/2 entries
SizeConstructor(s) ==
  /\ mat = [data |-> MemoryNew(0, CDiv(s * (s + 1), 2)),
            height |-> s, width |-> s]
  /\ heap = Arrays(CDiv(s * (s + 1), 2))

\* DenseSymmetricMatrix(real_t *d, int s)
ExternalConstructor(d, s) ==
  /\ mat = UseExternalData(d, s)
  /\ heap = [Arrays(0) EXCEPT ![d].wrapped = TRUE]

InitSymMat ==
  /\ NoIntegrator
  /\ main = NoHost
  /\ access = NoAccess
  /\ \/ DefaultConstructor
     \/ \E s \in 0 .. MaxSize : SizeConstructor(s)
     \/ \E d \in CallerArrays : \E s \in Sizes(d) : ExternalConstructor(d, s)

CallUseExternalData(d, s) ==
  /\ mat' = UseExternalData(d, s)
  /\ heap' = [heap EXCEPT ![d].wrapped = TRUE]
  /\ access' = [fn |-> "UseExternalData", d |-> d]
  /\ UNCHANGED symVars

\* Reset(d, s): { if (OwnsData()) { data.Delete(); } UseExternalData(d, s); }
Reset(d, s) ==
  /\ heap' = [(IF OwnsData(mat) THEN MemoryDelete(mat.data, heap)
               ELSE heap) EXCEPT ![d].wrapped = TRUE]
  /\ mat' = UseExternalData(d, s)
  /\ access' = [fn |-> "Reset", d |-> d]
  /\ UNCHANGED symVars

\* ClearExternalData(): { data.Reset(); height = width = 0; }
ClearExternalData ==
  /\ mat' = [data |-> MemoryEmpty, height |-> 0, width |-> 0]
  /\ access' = [fn |-> "ClearExternalData"]
  /\ UNCHANGED <<heap, symVars>>

\* Clear(): { if (OwnsData()) { data.Delete(); } ClearExternalData(); }
Clear ==
  /\ heap' = IF OwnsData(mat) THEN MemoryDelete(mat.data, heap) ELSE heap
  /\ mat' = [data |-> MemoryEmpty, height |-> 0, width |-> 0]
  /\ access' = [fn |-> "Clear"]
  /\ UNCHANGED symVars

\* a(i, j) for indices the MFEM_ASSERT of operator() lets through
Index(i, j) ==
  /\ mat.data.h_ptr # NULL
  /\ i >= 0 /\ i < mat.height /\ j >= 0 /\ j < mat.width
  /\ access' = [fn |-> "operator()", i |-> i, j |-> j,
                offset |-> Offset(mat.height, i, j)]
  /\ UNCHANGED <<mat, heap, symVars>>

\* Read(), HostRead(), Write(), HostWrite(), ReadWrite(), HostReadWrite()
Accessor(fn) ==
  /\ access' = [fn |-> fn, size |-> AccessSize(mat)]
  /\ UNCHANGED <<mat, heap, symVars>>

NextSymMat ==
  \/ \E d \in CallerArrays : \E s \in Sizes(d) : CallUseExternalData(d, s)
  \/ \E d \in CallerArrays : \E s \in Sizes(d) : Reset(d, s)
  \/ ClearExternalData
  \/ Clear
  \/ \E i, j \in Indices(mat.height) : Index(i, j)
  \/ \E fn \in Accessors : Accessor(fn)

SpecSymMat == InitSymMat /\ [][NextSymMat]_vars

\* C21: an access a(i, j) of an n x n matrix goes to an offset in
\* 0 .. n(n+1)/2 - 1 = GetStoredSize() - 1 that is i*n - ((i-1)*i)/2 + j - i
\* for i <= j, that a(j, i) goes to as well, and that no other unordered
\* pair of indices goes to.
C21_Indexing ==
  access.fn = "operator()" =>
    LET n == mat.height
        i == access.i
        j == access.j
        lo == IF i <= j THEN i ELSE j
        hi == IF i <= j THEN j ELSE i
    IN  /\ access.offset >= 0
        /\ access.offset <= ((n * (n + 1)) \div 2) - 1
        /\ access.offset <= GetStoredSize(mat) - 1
        /\ access.offset = lo * n - (((lo - 1) * lo) \div 2) + hi - lo
        /\ access.offset = Offset(n, j, i)
        /\ \A p, q \in Indices(n) :
             Offset(n, p, q) = access.offset => {p, q} = {i, j}

\* an entry below the diagonal, away from the first row and column
C21_Witness ==
  /\ access.fn = "operator()"
  /\ mat.height = MaxSize
  /\ access.i = MaxSize - 1
  /\ access.j = 1
  /\ access.offset = MaxSize + MaxSize - 2

\* C22: a call deletes an array only if it is Reset or Clear on a matrix
\* that owns the array, once per array, and never an array that was handed
\* in through the external-data constructor, UseExternalData or Reset.
C22_NeverDeletesExternalData ==
  [][\A d \in DOMAIN heap :
       /\ heap'[d].wrapped => heap'[d].deletes = 0
       /\ heap'[d].deletes <= 1
       /\ heap'[d].deletes # heap[d].deletes =>
            /\ access'.fn \in {"Reset", "Clear"}
            /\ OwnsData(mat)
            /\ mat.data.h_ptr = d]_vars

\* the matrix gave up the array it owned for the caller's array 1, later
\* took array 2 by Reset and was cleared: array 0 is deleted, 1 and 2 are not
C22_Witness ==
  /\ access.fn = "Clear"
  /\ heap[0].deletes = 1
  /\ heap[1].wrapped /\ heap[1].deletes = 0
  /\ heap[2].wrapped /\ heap[2].deletes = 0

\* C30: Read, HostRead, Write, HostWrite, ReadWrite and HostReadWrite ask
\* the memory for no more entries than the GetStoredSize() = n(n+1)/2 that
\* the matrix wraps or has allocated.
C30_AccessorsInsideStorage ==
  access.fn \in Accessors =>
    /\ access.size <= GetStoredSize(mat)
    /\ access.size <= mat.data.capacity

\* ------------------------------------------------------------------------
\* The shared-memory kernels stage by stage: between two MFEM_SYNC_THREAD
\* every thread of the block runs the stage.  What a thread writes and reads
\* in a stage is found by running the stage on marked memory.
\* ------------------------------------------------------------------------

\* every thread of ts runs stage s of block b, one after the other
RECURSIVE RunThreads(_, _, _, _, _, _)
RunThreads(k, s, b, a, ts, st) ==
  IF ts = {} THEN st
  ELSE LET t == CHOOSE u \in ts : TRUE
       IN  \* the test makes TLC finish this thread before the next starts
           LET st1 == Stage(k, s, t, b, a, st)
           IN  IF st1 = st1 THEN RunThreads(k, s, b, a, ts \ {t}, st1)
               ELSE st1

\* the cells <<buffer, index>> of the MFEM_SHARED arrays of kernel k
Cells(k) ==
  UNION {{<<bf, i>> : i \in DOMAIN Shared(k)[bf]} : bf \in DOMAIN Shared(k)}

\* MFEM_SHARED arrays with v in every cell
Marked(k, v) ==
  [bf \in DOMAIN Shared(k) |-> [i \in DOMAIN Shared(k)[bf] |-> v]]

\* the marks: no stage computes v from cells that all hold v
Marks == {1, 5}

\* memory with the cells of C raised by one
Raise(smem, C) ==
  [bf \in DOMAIN smem |->
     [i \in DOMAIN smem[bf] |->
        IF <<bf, i>> \in C THEN smem[bf][i] + 1 ELSE smem[bf][i]]]

\* arguments of a call whose tables are all 1 and whose x and op are all 2:
\* whatever a stage computes grows with every cell it reads
MarkedArgs ==
  [ne |-> ne,
   b  |-> [i \in DOMAIN maps.B |-> 1],  g  |-> [i \in DOMAIN maps.G |-> 1],
   bt |-> [i \in DOMAIN maps.Bt |-> 1], gt |-> [i \in DOMAIN maps.Gt |-> 1],
   op_ |-> [i \in DOMAIN pa_data |-> 2],
   x_ |-> [i \in DOMAIN x[1] |-> 2],
   d1d |-> 0, q1d |-> 0]

\* what thread t of block b makes of the memory smem in stage s
StageOn(k, s, t, b, smem) ==
  Stage(k, s, t, b, MarkedArgs, [sm |-> smem, y |-> Zeros(Size(y[1]))])

\* the cells thread t of block b changes in stage s in memory marked with v
WritesOver(k, s, t, b, v) ==
  UNION {{c \in Cells(k) : o.sm[c[1]][c[2]] # v} :
           o \in {StageOn(k, s, t, b, Marked(k, v))}}

\* the cells thread t of block b writes in stage s
Writes(k, s, t, b) == UNION {WritesOver(k, s, t, b, v) : v \in Marks}

\* thread t of block b reads a cell of C in stage s: raising the cells of C
\* changes what it writes
ReadsFrom(k, s, t, b, C) ==
  \E o \in {StageOn(k, s, t, b, Marked(k, 1))} :
    \E r \in {StageOn(k, s, t, b, Raise(Marked(k, 1), C))} :
       \/ r.y # o.y
       \/ \E c \in Cells(k) \ C : r.sm[c[1]][c[2]] # o.sm[c[1]][c[2]]

\* slice [tidz] of the arrays t[NBZ][..] of a 2D kernel
Slice(k, tidz) ==
  {c \in Cells(k) :
     c[2] \div (Size(Shared(k)[c[1]]) \div KernelNBZ(k)) = tidz}

\* the stage the running block is at
AtBarrier(s) ==
  /\ dev.run
  /\ dev.cur # -1
  /\ \A t \in DOMAIN dev.tpc : dev.tpc[t] = s

\* all threads of the running block run their next stage
BlockStage ==
  /\ dev.run
  /\ dev.cur # -1
  /\ \E s \in Range(Stages(dev.k)) :
       /\ AtBarrier(s)
       /\ LET a == [ne |-> ne, b |-> maps.B, g |-> maps.G, bt |-> maps.Bt,
                    gt |-> maps.Gt, op_ |-> pa_data, x_ |-> x[dev.slot],
                    d1d |-> 0, q1d |-> 0]
          IN  \E st \in {RunThreads(dev.k, s, dev.cur, a, DOMAIN dev.tpc,
                                    [sm |-> dev.sm, y |-> y[dev.slot]])} :
                /\ dev' = [dev EXCEPT !.sm = st.sm,
                                      !.tpc = [t \in DOMAIN dev.tpc |-> s + 1]]
                /\ y' = [y EXCEPT ![dev.slot] = st.y]
  /\ UNCHANGED <<hostVars, uninit, env, dim, nq, ne, dofs1D, quad1D, maps,
                 pa_data, opWrites, assembled, x, y0, calls, status, kernel,
                 ref>>

\* the shared-memory entries (2,2) and (3,3) in 2D, (2,2) and (2,3) in 3D
StageEnvs ==
  {Env(2, s[1], s[2], NE, 0, TRUE) :
     s \in {<<2, 2>>, <<3, 3>>}, NE \in 1 .. MaxNE}
  \cup {Env(3, 2, 2, 1, 0, TRUE), Env(3, 2, 3, 1, 0, TRUE)}

InitStages ==
  \E E \in StageEnvs :
     Constructed(E, <<InputVector(E, 1)>>, <<InitialOutput(E, 1)>>)

NextStages ==
  \/ AssemblePA
  \/ (Calls(1) = 0 /\ DeviceAddMultPA(1))
  \/ (Calls(1) = 0 /\ DeviceAddMultTransposePA(1))
  \/ \E b \in dev.pend : BlockStart(b)
  \/ BlockStage
  \/ BlockEnd
  \/ KernelEnd

SpecStages == InitStages /\ [][NextStages]_vars

\* C23: in every stage of every shared-memory kernel no cell of a staging
\* buffer is written by two threads of the block, no thread reads a cell
\* that another thread writes in that stage, and in the batched 2D kernels
\* a thread with z-index tidz writes and reads only slice [tidz] of every
\* staging buffer.
C23_SingleWriter ==
  \A s \in Range(SmemApply3DStages) :
    (AtBarrier(s) /\ s < Stages(dev.k)) =>
      LET k == dev.k
          T == DOMAIN dev.tpc
      IN  \E W \in {Eager([t \in T |-> Writes(k, s, t, dev.cur)])} :
            \A t \in T :
              /\ \A u \in T \ {t} : W[t] \cap W[u] = {}
              /\ ~ReadsFrom(k, s, t, dev.cur,
                            UNION {W[u] : u \in T \ {t}})
              /\ Is2D(k) =>
                   /\ W[t] \subseteq Slice(k, t.z)
                   /\ ~ReadsFrom(k, s, t, dev.cur,
                                 Cells(k) \ Slice(k, t.z))

\* a batch of two elements in a 2D kernel, at a stage in which every thread
\* writes a cell and reads cells that the stage before wrote
C23_Witness ==
  /\ AtBarrier(1)
  /\ Is2D(dev.k)
  /\ {t.z : t \in DOMAIN dev.tpc} = {0, 1}
  /\ \A t \in DOMAIN dev.tpc :
       /\ Writes(dev.k, 1, t, dev.cur) # {}
       /\ ReadsFrom(dev.k, 1, t, dev.cur,
                    Slice(dev.k, t.z) \ Writes(dev.k, 1, t, dev.cur))

\* the cells the threads of block b write in stage s
StageWrites(k, s, b) ==
  UNION {Writes(k, s, t, b) : t \in Threads(k, b, ne)}

\* a thread of block b reads a cell of C in stage s
StageReadsFrom(k, s, b, C) ==
  \E t \in Threads(k, b, ne) : ReadsFrom(k, s, t, b, C)

\* the cells of buffer bf as the stage before s left them: those that the
\* last stage to write bf has written, through the view it uses
RECURSIVE LastWritten(_, _, _, _)
LastWritten(k, s, b, bf) ==
  IF s = 0 THEN {}
  ELSE \* one evaluation of the writes of stage s - 1
       LET pick[W \in {StageWrites(k, s - 1, b)}] ==
             IF \E c \in W : c[1] = bf THEN {c \in W : c[1] = bf}
             ELSE LastWritten(k, s - 1, b, bf)
       IN  pick[StageWrites(k, s - 1, b)]

Kernels3DShared == {"SmemPAConvectionApply3D", "SmemPAConvectionApplyT3D"}

\* C24: in the 3D shared-memory kernels no stage reads and writes the same
\* backing buffer sm0 .. sm5, and a stage reads only cells that the last
\* stage to write their buffer has written: a view placed on used storage
\* is first written in a stage after the last stage that reads the view
\* before it, and the kernel's result is that of the generic kernel.
C24_BufferReuse ==
  /\ \A s \in Range(SmemApply3DStages) :
       (AtBarrier(s) /\ dev.k.fn \in Kernels3DShared) =>
         LET k == dev.k
             b == dev.cur
         IN  \E W \in {StageWrites(k, s, b)} :
               /\ \A bf \in {c[1] : c \in W} :
                    ~StageReadsFrom(k, s, b, {c \in Cells(k) : c[1] = bf})
               /\ ~StageReadsFrom(k, s, b,
                     Cells(k) \ UNION {LastWritten(k, s, b, bf) :
                                         bf \in DOMAIN Shared(k)})
  /\ (kernel.fn \in Kernels3DShared /\ ~dev.run /\ Calls(1) = 1) =>
       y[1] = ref

\* SmemPAConvectionApply3D with D1D = 2 < Q1D = 3 before the stage that
\* writes GBBu, BGBu, BBGu on sm0, sm1, sm2: u fills part of sm0, and the
\* stage reads sm3, sm4, sm5
C24_Witness ==
  /\ AtBarrier(3)
  /\ dev.k.fn = "SmemPAConvectionApply3D"
  /\ dofs1D = 2 /\ quad1D = 3
  /\ {c[1] : c \in StageWrites(dev.k, 3, dev.cur)} = {"sm0", "sm1", "sm2"}
  /\ LastWritten(dev.k, 3, dev.cur, "sm0")
       # StageWrites(dev.k, 3, dev.cur) \cap {<<"sm0", i>> : i \in Range(27)}
  /\ \A bf \in {"sm3", "sm4", "sm5"} :
       StageReadsFrom(dev.k, 3, dev.cur, {c \in Cells(dev.k) : c[1] = bf})

\* C25 as stated: a generic kernel called with D or Q above the platform
\* limit goes on without failing.
C25_GenericUnchecked ==
  (assembled /\ kernel.fn \in GenericKernels
     /\ (dofs1D > MAX_D1D \/ quad1D > MAX_Q1D))
    => status = "ok"

\* C25 amended: the generic kernels have the two MFEM_VERIFY lines of the
\* shared-memory kernels, and they work with the runtime sizes: called with
\* D or Q above the platform limit a generic kernel ends the run in a fatal
\* error before any element task, y is as it was and no call completes.
C25_GenericChecked ==
  (assembled /\ kernel.fn \in GenericKernels
     /\ (dofs1D > MAX_D1D \/ quad1D > MAX_Q1D))
    => (status = "abort" /\ Calls(1) = 0 /\ y = y0)

C25_Witness ==
  /\ assembled
  /\ kernel.fn = "PAConvectionApply2D"
  /\ dofs1D = MAX_D1D + 1
  /\ quad1D = 2
  /\ status = "abort"
  /\ y = y0

\* ------------------------------------------------------------------------
\* SpecDispatch: one direct call of PAConvectionApply or PAConvectionApplyT
\* for every (dim, D1D, Q1D) up to MaxOrder dofs and MaxPoints points, on a
\* mesh without elements (NE = 0), so that every case of the four switches
\* is taken
\* ------------------------------------------------------------------------

MaxOrder == 10

MaxPoints == 20

DispatchEnvs ==
  {Env(dm, D, Q, 0, 0, TRUE) :
     dm \in Dims, D \in 1 .. MaxOrder, Q \in 1 .. MaxPoints}

InitDispatch ==
  \E E \in DispatchEnvs :
     Constructed(E, <<InputVector(E, 1)>>, <<InitialOutput(E, 1)>>)

NextDispatch ==
  \/ CallApply(1)
  \/ CallApplyT(1)

SpecDispatch == InitDispatch /\ [][NextDispatch]_vars

\* the instantiations of the shared-memory 2D kernels, which have NBZ
Batched == {"SmemPAConvectionApply2D", "SmemPAConvectionApplyT2D"}

\* the 2D catalogue: what the two 2D switches return into for the sizes of
\* SpecDispatch
Catalogue2D ==
  {k \in {ApplyKernel(2, D, Q) : D \in 1 .. MaxOrder, Q \in 1 .. MaxPoints}
           \cup {ApplyTKernel(2, D, Q) :
                   D \in 1 .. MaxOrder, Q \in 1 .. MaxPoints} :
     k.fn \in Batched}

\* C26: among the 2D specialized entries NBZ is non-increasing in the
\* element size: an entry (D1,Q1) has a batching factor >= that of every
\* entry (D2,Q2) with D1 <= D2 and Q1 <= Q2; it is 8 for D = 2, 4 for D in
\* {3,4}, 2 for D = 5 and 1 for D >= 6.
C26_BatchingNonIncreasing ==
  kernel.fn \in Batched =>
    /\ kernel.T_NBZ = (CASE kernel.T_D1D = 2 -> 8
                         [] kernel.T_D1D \in {3, 4} -> 4
                         [] kernel.T_D1D = 5 -> 2
                         [] kernel.T_D1D >= 6 -> 1)
    /\ \A k2 \in Catalogue2D :
         (kernel.T_D1D <= k2.T_D1D /\ kernel.T_Q1D <= k2.T_Q1D)
           => kernel.T_NBZ >= k2.T_NBZ

C26_Witness ==
  /\ kernel = Kernel("SmemPAConvectionApply2D", 5, 8, 2)
  /\ env.D = 5 /\ env.Q = 8
  /\ calls[1].F = 1
  /\ Cardinality(Catalogue2D) = 22

\* C29: for each dimension PAConvectionApply and PAConvectionApplyT
\* specialize the same (D, Q) keys, with the same template sizes and the same
\* batching factors: a call takes the specialized path in one if and only
\* if it does in the other.
C29_SameTables ==
  kernel # NotCalled =>
    LET f == ApplyKernel(env.dim, env.D, env.Q)
        t == ApplyTKernel(env.dim, env.D, env.Q)
    IN  /\ kernel \in {f, t}
        /\ f.T_D1D = t.T_D1D /\ f.T_Q1D = t.T_Q1D /\ f.T_NBZ = t.T_NBZ
        /\ (f = NoKernel) = (t = NoKernel)
        /\ (f.fn \in GenericKernels) = (t.fn \in GenericKernels)
        /\ f.fn = "SmemPAConvectionApply2D"
             <=> t.fn = "SmemPAConvectionApplyT2D"
        /\ f.fn = "SmemPAConvectionApply3D"
             <=> t.fn = "SmemPAConvectionApplyT3D"

C29_Witness ==
  /\ kernel = Kernel("SmemPAConvectionApplyT3D", 2, 6, 0)
  /\ env.dim = 3 /\ env.D = 2 /\ env.Q = 6
  /\ calls[1].T = 1
  /\ ApplyKernel(3, 2, 6) = Kernel("SmemPAConvectionApply3D", 2, 6, 0)

\* the quadrature points (qx, qy[, qz]) of an element of the assembled mesh
TensorPoints == IF dim = 2 THEN Range(quad1D) \X Range(quad1D)
                ELSE Range(quad1D) \X Range(quad1D) \X Range(quad1D)

\* the point number q = qx + Q1D*qy [+ Q1D^2*qz]
PointNumber(p) ==
  IF dim = 2 THEN p[1] + quad1D * p[2]
  ELSE p[1] + quad1D * p[2] + quad1D * quad1D * p[3]

\* the cell the Apply / ApplyT kernels read as op(qx,qy[,qz],c,e)
OpView(p, c, e) ==
  IF dim = 2 THEN OpView2D(quad1D, p[1], p[2], c, e)
  ELSE OpView3D(quad1D, p[1], p[2], p[3], c, e)

\* C28 (SpecSetup).  Setup and Apply agree on the layout of the coefficient
\* buffer: with NQ = Q1D^d and q = qx + Q1D*qy [+ Q1D^2*qz], the cell Apply
\* and ApplyTranspose read as op(qx,qy[,qz],c,e) is the cell Setup wrote as
\* y(q,c,e), for every component c < d and element e < NE; the cells of
\* distinct (q,c,e) are distinct and each was assigned by Setup.
C28_SameLayout ==
  (assembled /\ dim \in {2, 3}) =>
    /\ nq = Pow(quad1D, dim)
    /\ \A p \in TensorPoints, c \in Range(dim), e \in Range(ne) :
         /\ OpView(p, c, e) = SetupView(nq, dim, PointNumber(p), c, e)
         /\ OpView(p, c, e) \in DOMAIN pa_data
         /\ opWrites[OpView(p, c, e)] >= 1
    /\ Cardinality({OpView(p, c, e) :
                      p \in TensorPoints, c \in Range(dim), e \in Range(ne)})
         = nq * dim * ne

C28_Witness ==
  /\ assembled
  /\ dim = 3 /\ quad1D = 3 /\ ne = MaxNE
  /\ Calls(1) = 1
  /\ OpView(<<1, 2, 1>>, 2, 1) = SetupView(27, 3, 16, 2, 1)

\* ------------------------------------------------------------------------
\* SpecMain: the time loop of main() of miniapps/multidomain/multidomain_nd.cpp.
\* Times are integers, in units of which dt is an even number (dt/2 is
\* exact); the rounding of real_t is left out.
\* ------------------------------------------------------------------------

\* largest final time t_final a run is given
MaxFinal == 16

\* the time steps dt a run is given
TimeSteps == {2, 4}

\* the -vs values a run is given (the default is 10)
VisSteps == {2, 10}

\* ODESolver::Step(Vector &x, real_t &t, real_t &dt) as far as the time
\* goes: x is advanced from t to t + dt and t, passed by reference, is
\* advanced with it
Step(t, dt) == [from |-> t, to |-> t + dt, t |-> t + dt]

NoStep == [from |-> -1, to |-> -1, t |-> -1]

\* main() at "real_t t = 0.0; bool last_step = false;" with the options
\* t_final, dt, vis_steps; ti = 1 is the init-statement of the for loop
InitMain ==
  /\ NoIntegrator
  /\ mat = NoHost /\ heap = NoHost /\ access = NoHost
  /\ \E tf \in 1 .. MaxFinal, d \in TimeSteps, vs \in VisSteps :
       main = [t_final |-> tf, dt |-> d, vis_steps |-> vs,
               t |-> 0, last_step |-> FALSE, ti |-> 1, pc |-> "for",
               t0 |-> 0, box |-> NoStep, wall |-> -1, cyl |-> NoStep,
               printed |-> <<0, 0>>]

mainRest == <<integratorVars, mat, heap, access>>

\* for (...; !last_step; ...) { if (t + dt >= t_final - dt/2) last_step = true;
LoopTest ==
  /\ main.pc = "for"
  /\ main' = IF main.last_step THEN [main EXCEPT !.pc = "return"]
             ELSE [main EXCEPT
                     !.last_step =
                        (2 * (main.t + main.dt) >= 2 * main.t_final - main.dt),
                     !.t0 = main.t,
                     !.pc = "box"]
  /\ UNCHANGED mainRest

\* d_ode_solver.Step(magnetic_field_block, t, dt);
BoxStep ==
  /\ main.pc = "box"
  /\ LET r == Step(main.t, main.dt)
     IN  main' = [main EXCEPT !.box = r, !.t = r.t, !.pc = "transfer"]
  /\ UNCHANGED mainRest

\* SetFromTrueDofs, Transfer, GetTrueDofs: the cylinder wall takes the
\* values the block has now
Transfer ==
  /\ main.pc = "transfer"
  /\ main' = [main EXCEPT !.wall = main.box.to, !.pc = "cylinder"]
  /\ UNCHANGED mainRest

\* cd_ode_solver.Step(magnetic_field_cylinder, t, dt);
CylinderStep ==
  /\ main.pc = "cylinder"
  /\ LET r == Step(main.t, main.dt)
     IN  main' = [main EXCEPT !.cyl = r, !.t = r.t, !.pc = "output"]
  /\ UNCHANGED mainRest

\* if (last_step || (ti % vis_steps) == 0) { out << "step " << ti ... }
\* and the ti++ of the loop
Output ==
  /\ main.pc = "output"
  /\ main' = [main EXCEPT
                !.printed = IF main.last_step \/ main.ti % main.vis_steps = 0
                            THEN <<main.ti, main.t>> ELSE @,
                !.ti = @ + 1,
                !.pc = "for"]
  /\ UNCHANGED mainRest

NextMain ==
  \/ LoopTest
  \/ BoxStep
  \/ Transfer
  \/ CylinderStep
  \/ Output

SpecMain == InitMain /\ [][NextMain]_vars

\* the step count of a loop whose time grows by dt per iteration: the least
\* n >= 1 with n*dt >= t_final - dt/2
RECURSIVE StepsFrom(_, _, _)
StepsFrom(n, tf, d) ==
  IF 2 * n * d >= 2 * tf - d THEN n ELSE StepsFrom(n + 1, tf, d)

ImpliedSteps(tf, d) == StepsFrom(1, tf, d)

\* C27: in each iteration of the time loop the box solve and the cylinder
\* solve cover the same interval [t, t+dt], the wall takes the box state at
\* t+dt, the shared time t grows by exactly dt per iteration, and the loop
\* performs the step count implied by t_final/dt.
C27_SameInterval ==
  /\ main.pc = "output" =>
       /\ main.box.from = main.t0 /\ main.box.to = main.t0 + main.dt
       /\ main.wall = main.t0 + main.dt
       /\ main.cyl.from = main.t0 /\ main.cyl.to = main.t0 + main.dt
       /\ main.t = main.t0 + main.dt
  /\ main.pc = "return" =>
       main.ti - 1 = ImpliedSteps(main.t_final, main.dt)

====
